---- MODULE Spec2Model ----
(***************************************************************************)
(* Line fitting of ifscube: onedspec.Spectrum.linefit (one spectrum) and   *)
(* datacube.Cube.linefit (the loop over the spaxels of a cube).            *)
(*                                                                         *)
(* Numbers are exact rationals <<num, den>> with den > 0; NaN is <<0, 0>>. *)
(* An attribute that was never assigned is Unset, an assigned one is the   *)
(* one-element tuple <<value>>.  Python's None is the empty tuple.         *)
(*                                                                         *)
(* What lives outside src/ is an input of the model: the continuum         *)
(* (spectools.continuum) enters through the line-subtracted signal         *)
(* s = data - cont of every pixel, scipy's minimize through the result     *)
(* record r = [status, x] it hands back, and the residual through the      *)
(* reduced chi-square it yields.  The fitting window is the whole          *)
(* wavelength range (fitting_window = None).  Attributes that Cube.linefit *)
(* reads from a Spectrum but that Spectrum.linefit of src/ assigns on no   *)
(* path (component_names, eqw_model, eqw_direct, initial_guess, fitbounds, *)
(* fitstellar, r, the feature_wl keyword) are left out; the ones it does   *)
(* assign on some path (fit_status, em_model) are modelled as assigned.    *)
(* Of the equivalent widths the model keeps the arrays of the Cube: their  *)
(* number of rows, one per component of the guess, and the call that wrote *)
(* each spaxel.  The variance, weights and flags keywords act on the       *)
(* arrays of the Cube only; what the fitter makes of them is left out.     *)
(***************************************************************************)
EXTENDS Integers, Sequences, FiniteSets, TLC

VARIABLES
    \* ---- the arguments of a call and the Spectrum object ----
    spec,          \* the Spectrum object: flags, signal, fit_status, em_model
    p0,            \* the caller's initial-guess array (the object itself)
    bounds,        \* the caller's bounds argument (kwargs['bounds'])
    function,      \* the profile kind asked for
    \* ---- one Spectrum.linefit call (specification SpecFit) ----
    call,          \* record of the last call: what was passed, returned, raised
    fpc,           \* "ready" before the call, "returned" / "raised" after it
    \* ---- the Cube object ----
    shape,         \* <<rows, columns>> of the cube
    data,          \* spaxel -> the kind of spectrum it holds
    spatial_mask,  \* the set of masked spaxels
    spec_indices,  \* the sequence of eligible <<row, column>> coordinates
    binned,        \* whether the cube carries a Voronoi table
    voronoi_tab,   \* sequence of rows [ycoords, xcoords, binNum]
    \* ---- one Cube.linefit run ----
    args,          \* individual_spec, spiral_loop, spiral_center, refit,
                   \* refit_radius, sig_threshold, par_threshold and the p0 passed
    pc,            \* "idle", "loop", "done" or "raised"
    raised,        \* the exception that ended the run, or "none"
    xy,            \* the coordinate sequence of the run
    pos,           \* position in xy of the next coordinate (1-based)
    fit_status,    \* self.fit_status: spaxel -> status
    sol,           \* sol: spaxel -> solution vector
    em_model,      \* self.em_model: Unset, or <<sol>> once the run has stored it
    fit_ref,       \* <<self.fit_y0, self.fit_x0>>, or None
    guess,         \* the value of the local name p0 of Cube.linefit
    aliased,       \* whether that name still refers to the caller's array
    is_first_spec, \* the flag of the same name
    visited,       \* the coordinates the fitter was invoked at, in order
    guesses,       \* the initial guess passed at each of them, in order
    kwbounds,      \* kwargs['bounds'] of the run
    boundsused,    \* the bounds passed at each of them, in order
    lookups,       \* whether the refit step was entered at each of them
    \* ---- loading and writing (specification SpecIO) ----
    accessory,     \* variance, flags, stellar, weights: [shape, fill, factor,
                   \* replaced] each
    loadarg,       \* the file and the arguments of the last _load, or None
    fit_file,      \* the file _write_linefit wrote, or None
    op,            \* the last of _load, spatial_rebin, _write_linefit, loadfit,
                   \* the exception it raised, the file loadfit read
    \* ---- after a run ----
    fit_func,      \* self.fit_func: Unset, or <<the profile function>>
    w80out,        \* the last Cube.w80 call and its outcome, or None
    contout,       \* the last Cube.continuum call and its outcome, or None
    \* ---- several runs on one Cube object (specification SpecRerun) ----
    later,         \* the Cube.linefit calls the caller makes after this one
    eqw_model      \* self.eqw_model (and eqw_direct): Unset while None, or
                   \* <<[rows, cells]>>, cells: spaxel -> the call that wrote it

fitvars == <<spec, p0, bounds, function, call, fpc>>

cubevars == <<shape, data, spatial_mask, spec_indices, binned, voronoi_tab>>

runvars == <<args, pc, raised, xy, pos, fit_status, sol, em_model, fit_ref,
             guess, aliased, is_first_spec, visited, guesses, kwbounds,
             boundsused, lookups>>

iovars == <<accessory, loadarg, fit_file, op>>

postvars == <<fit_func, w80out, contout>>

callvars == <<later, eqw_model>>

vars == <<fitvars, cubevars, runvars, iovars, postvars, callvars>>

----------------------------------------------------------------------------
\* Bounds of the model.

\* Pixels of a spectrum.
NPix == 5
\* Rows and columns of a cube.
NRows == 2
NCols == 2
\* Line components of an initial guess.
MaxComp == 2
\* Largest amplitude of an initial guess.
MaxAmp == 2
\* Largest termination code the minimizer hands back.
MaxOptStatus == 2
\* The minimizer's solutions are <<b+1, b+2, ...>> for b in 0..MaxOptBase.
MaxOptBase == 1
\* Largest reduced chi-square.
MaxChi == 2

----------------------------------------------------------------------------
\* Values.

None == <<>>

Unset == <<>>

NaN == <<0, 0>>

Abs(i) == IF i < 0 THEN -i ELSE i

RECURSIVE GCD(_, _)
GCD(a, b) == IF b = 0 THEN a ELSE GCD(b, a % b)

\* The rational n/d (d # 0) in lowest terms with a positive denominator.
Rat(num, den) ==
    LET g == GCD(Abs(num), Abs(den))
        sgn == IF den < 0 THEN -1 ELSE 1
    IN  <<sgn * (num \div g), sgn * (den \div g)>>

FromInt(i) == <<i, 1>>

IsNaN(a) == a[2] = 0

RMul(a, b) == IF IsNaN(a) \/ IsNaN(b) THEN NaN ELSE Rat(a[1] * b[1], a[2] * b[2])

\* a / b; b is never zero where the code divides (scale_factor > 0).
RDiv(a, b) == IF IsNaN(a) \/ IsNaN(b) THEN NaN ELSE Rat(a[1] * b[2], a[2] * b[1])

RLeqZero(a) == ~IsNaN(a) /\ a[1] <= 0

\* The indices of a[::step] in a sequence of length n (1-based).
Strided(n, step) == {i \in 1..n : (i - 1) % step = 0}

----------------------------------------------------------------------------
\* onedspec.py

\* nan_solution: npars + 1 NaNs.
nan_solution(npars) == [i \in 1..(npars + 1) |-> NaN]

\* Block size of a profile kind; 0 stands for the NameError branch.
npars_pc(fn) ==
    IF fn = "gaussian" THEN 3
    ELSE IF fn = "gauss_hermite" THEN 5
    ELSE 0

\* scale_bounds: a deep copy of the bounds with both endpoints of every
\* npars_pc-th pair divided by scale_factor, None endpoints left alone.
scale_bounds(b, scale_factor, npc) ==
    [i \in 1..Len(b) |->
        IF i \in Strided(Len(b), npc)
        THEN [k \in 1..2 |-> IF b[i][k] = None THEN None
                             ELSE RDiv(b[i][k], scale_factor)]
        ELSE b[i]]

\* np.sum(self.flags) > 0.8 * self.flags.size
TooManyFlags(flags) ==
    10 * Cardinality({i \in 1..Len(flags) : flags[i]}) > 8 * Len(flags)

\* valid_pixels = (self.flags == 0) & fw, with fw all true.
valid_pixels(flags) == {i \in 1..Len(flags) : ~flags[i]}

\* np.mean(s) over the valid pixels.
RECURSIVE SumOver(_, _)
SumOver(s, idx) ==
    IF idx = {} THEN 0
    ELSE LET i == CHOOSE j \in idx : TRUE IN s[i] + SumOver(s, idx \ {i})

mean(s, idx) == Rat(SumOver(s, idx), Cardinality(idx))

\* p0[::npars_pc] /= scale_factor, in place.
\* A (1, m) array has one row, p0[0], and the slice divides all of it.
ScaleGuess(p, scale_factor, npc) ==
    IF Len(p) = 1
    THEN << [k \in 1..Len(p[1]) |-> RDiv(p[1][k], scale_factor)] >>
    ELSE [i \in 1..Len(p) |->
            IF i \in Strided(Len(p), npc) THEN RDiv(p[i], scale_factor) ELSE p[i]]

\* p = np.append(r['x'], red_chi2); p[::npars_pc] *= scale_factor
\* The slice runs over all of p, whose length is npars + 1.
RescaleSolution(x, red_chi2, scale_factor, npc) ==
    LET p == Append(x, red_chi2)
    IN  [i \in 1..Len(p) |->
            IF i \in Strided(Len(p), npc) THEN RMul(p[i], scale_factor) ELSE p[i]]

\* Spectrum.linefit on the object self with the arguments p, b, fn, where the
\* minimizer, if it is reached, hands back r and the residual yields red_chi2.
\* The result names the object and the argument p after the call (both are
\* changed in place), what the call returned or raised, and what the
\* minimizer was given.
linefit(self, p, b, fn, r, red_chi2) ==
    LET npars == Len(p)
        npc == npars_pc(fn)
        valid == valid_pixels(self.flags)
        scale_factor == mean(self.signal, valid)
        x0 == ScaleGuess(p, scale_factor, npc)
        psol == RescaleSolution(r.x, red_chi2, scale_factor, npc)
        same == [self |-> self, p0 |-> p, raised |-> "none", ret |-> None,
                 minimized |-> FALSE, x0 |-> None, sbounds |-> None,
                 scale_factor |-> NaN]
    IN  IF npc = 0
        THEN [same EXCEPT !.raised = "NameError"]
        ELSE IF TooManyFlags(self.flags)
        \* p = nan_solution; self.fit_status = 98; return
        THEN [same EXCEPT !.self = [self EXCEPT !.fit_status = <<98>>]]
        ELSE IF RLeqZero(scale_factor)
        \* p = nan_solution; fit_status = 97; return
        THEN [same EXCEPT !.scale_factor = scale_factor]
        ELSE IF b = None
        \* scale_bounds(None, ...) subscripts None, after p0 was scaled.
        THEN [same EXCEPT !.p0 = x0, !.raised = "TypeError",
                          !.scale_factor = scale_factor]
        ELSE [self |-> [self EXCEPT !.em_model = <<psol>>,
                                    !.fit_status = <<r.status>>],
              p0 |-> x0, raised |-> "none", ret |-> psol,
              minimized |-> TRUE, x0 |-> x0,
              sbounds |-> scale_bounds(b, scale_factor, npc),
              scale_factor |-> scale_factor]

----------------------------------------------------------------------------
\* Inputs of one Spectrum.linefit call.

Functions == {"gaussian", "gauss_hermite", "lorentzian"}

SignalValues == {-1, 3}

\* The flag arrays of a spectrum: the first k pixels flagged, k = 0..NPix.
FlagArrays == {[i \in 1..NPix |-> i <= k] : k \in 0..NPix}

\* The signals of a spectrum: odd pixels hold a, even pixels hold b.
SignalArrays ==
    {[i \in 1..NPix |-> IF i % 2 = 1 THEN a ELSE b] : a, b \in SignalValues}

\* Initial guesses: ncomp blocks, every amplitude a, the other parameters
\* numbered so that no two entries of a guess are equal.
Guess(fn, ncomp, a) ==
    LET npc == IF npars_pc(fn) = 0 THEN 3 ELSE npars_pc(fn)
    IN  [i \in 1..(ncomp * npc) |->
            IF (i - 1) % npc = 0 THEN FromInt(a) ELSE FromInt(10 + i)]

\* Bounds arguments for npars parameters: None, all pairs bounded, or pairs
\* with an open lower or upper end.
BoundsFor(npars) ==
    { None,
      [i \in 1..npars |-> <<FromInt(0), FromInt(20 + i)>>],
      [i \in 1..npars |-> <<None, FromInt(20 + i)>>],
      [i \in 1..npars |-> <<FromInt(1), None>>] }

\* What the minimizer can hand back for npars parameters.
OptResults(npars) ==
    { [status |-> st, x |-> [i \in 1..npars |-> FromInt(b + i)]] :
        st \in 0..MaxOptStatus, b \in 0..MaxOptBase }

RedChi == {FromInt(c) : c \in 1..MaxChi}

FreshSpectrum(flags, signal) ==
    [flags |-> flags, signal |-> signal, fit_status |-> Unset, em_model |-> Unset]

NoCall ==
    [p0 |-> None, bounds |-> None, raised |-> "none", ret |-> None,
     minimized |-> FALSE, x0 |-> None, sbounds |-> None, scale_factor |-> NaN,
     r |-> None, red_chi2 |-> NaN]

\* No _load, spatial_rebin, _write_linefit or loadfit call was made.
NoOp == [name |-> "none", raised |-> "none", file |-> None]

\* Nothing was stored by a run or read from a fit file, no Cube.w80 and no
\* Cube.continuum call was made, no further Cube.linefit call follows.
NoPost ==
    /\ fit_func = Unset /\ w80out = None /\ contout = None
    /\ later = <<>> /\ eqw_model = Unset

\* No cube is involved in a stand-alone Spectrum.linefit call.
NoCube ==
    /\ shape = <<0, 0>> /\ data = <<>> /\ spatial_mask = {}
    /\ spec_indices = <<>> /\ binned = FALSE /\ voronoi_tab = <<>>
    /\ args = None /\ pc = "idle" /\ raised = "none" /\ xy = <<>> /\ pos = 0
    /\ fit_status = <<>> /\ sol = <<>> /\ em_model = Unset /\ fit_ref = None
    /\ guess = None /\ aliased = TRUE /\ is_first_spec = TRUE
    /\ visited = <<>> /\ guesses = <<>>
    /\ kwbounds = None /\ boundsused = <<>> /\ lookups = <<>>
    /\ accessory = Unset /\ loadarg = None /\ fit_file = None /\ op = NoOp
    /\ NoPost

InitFit ==
    /\ \E flags \in FlagArrays, signal \in SignalArrays :
          spec = FreshSpectrum(flags, signal)
    /\ function \in Functions
    /\ \E ncomp \in 1..MaxComp, a \in 1..MaxAmp : p0 = Guess(function, ncomp, a)
    /\ bounds \in BoundsFor(Len(p0))
    /\ call = NoCall
    /\ fpc = "ready"
    /\ NoCube

\* spec.linefit(p0, function=function, bounds=bounds)
SpectrumLinefit ==
    /\ fpc = "ready"
    /\ \E r \in OptResults(Len(p0)), red_chi2 \in RedChi :
          LET out == linefit(spec, p0, bounds, function, r, red_chi2)
          IN  /\ spec' = out.self
              /\ p0' = out.p0
              /\ call' = [p0 |-> p0, bounds |-> bounds, raised |-> out.raised,
                          ret |-> out.ret, minimized |-> out.minimized,
                          x0 |-> out.x0, sbounds |-> out.sbounds,
                          scale_factor |-> out.scale_factor,
                          r |-> IF out.minimized THEN r ELSE None,
                          red_chi2 |-> IF out.minimized THEN red_chi2 ELSE NaN]
              /\ fpc' = IF out.raised = "none" THEN "returned" ELSE "raised"
    /\ UNCHANGED <<bounds, function, cubevars, runvars, iovars, postvars,
                   callvars>>

NextFit == SpectrumLinefit

SpecFit == InitFit /\ [][NextFit]_vars

----------------------------------------------------------------------------
\* datacube.py: the coordinate sequences.

\* The spaxels of a cube of shape sh, as <<row, column>>, 0-based.
Coords(sh) == {<<i, j>> : i \in 0..(sh[1] - 1), j \in 0..(sh[2] - 1)}

\* The k-th spaxel (1-based) of a cube of shape sh in numpy's raveled order.
Raveled(sh, k) == <<(k - 1) \div sh[2], (k - 1) % sh[2]>>

\* Cube._set_spec_indices: np.indices(...)[~self.spatial_mask], rows first.
RECURSIVE Unmasked(_, _, _)
Unmasked(sh, mask, k) ==
    IF k > sh[1] * sh[2] THEN <<>>
    ELSE (IF Raveled(sh, k) \in mask THEN <<>> ELSE <<Raveled(sh, k)>>)
            \o Unmasked(sh, mask, k + 1)

\* The same with the mask ignored.
set_spec_indices_unmasked(sh, mask) == Unmasked(sh, {}, 1)

set_spec_indices(sh, mask) == Unmasked(sh, mask, 1)

\* np.unique(v['binNum'], return_index=True)[1]: for every bin id, in
\* ascending order, the index of its first row in the table.
RECURSIVE UniqueIndex(_, _)
UniqueIndex(tab, ids) ==
    IF ids = {} THEN <<>>
    ELSE LET b == CHOOSE x \in ids : \A y \in ids : x <= y
             first == CHOOSE k \in 1..Len(tab) :
                         /\ tab[k].binNum = b
                         /\ \A m \in 1..(k - 1) : tab[m].binNum # b
         IN  <<first>> \o UniqueIndex(tab, ids \ {b})

BinIds(tab) == {tab[k].binNum : k \in 1..Len(tab)}

\* xy of a binned cube: <<ycoords, xcoords>> of the first row of every bin.
Representatives(tab) ==
    LET idx == UniqueIndex(tab, BinIds(tab))
    IN  [k \in 1..Len(idx) |-> <<tab[idx[k]].ycoords, tab[idx[k]].xcoords>>]

\* np.arctan2(dy, dx) as the part of (-pi, pi] it falls in: -1 for a negative
\* angle, 0 for the angle 0, 1 for an angle in (0, pi), 2 for pi.
Atan2Part(dy, dx) ==
    IF dy < 0 THEN -1
    ELSE IF dy > 0 THEN 1
    ELSE IF dx < 0 THEN 2 ELSE 0

\* The angles left in (-pi, pi].
UnnormalisedPart(part) == part

\* t[t < 0] += 2 * np.pi: the negative angles move behind pi.
NormalisedPart(part) == IF part < 0 THEN 3 ELSE part

\* The sort key of spaxel h for the centre (x0, y0), given doubled as c2 =
\* <<2 * x0, 2 * y0>> so that half-integer centres stay integers: the squared
\* radius (times 4) and the angle as its part and its direction vector.
SpiralKey(h, c2) ==
    LET dx == 2 * h[2] - c2[1]
        dy == 2 * h[1] - c2[2]
    IN  [radius |-> dx * dx + dy * dy,
         part |-> NormalisedPart(Atan2Part(dy, dx)), dx |-> dx, dy |-> dy]

\* Angles of one part differ by less than pi: the cross product orders them.
AngleLess(a, b) ==
    \/ a.part < b.part
    \/ a.part = b.part /\ a.dx * b.dy - a.dy * b.dx > 0

\* order=['radius', 'angle']
KeyLess(a, b) ==
    \/ a.radius < b.radius
    \/ a.radius = b.radius /\ AngleLess(a, b)

\* np.argsort of the keys of the spaxels in S.
RECURSIVE ArgSort(_, _)
ArgSort(S, c2) ==
    IF S = {} THEN <<>>
    ELSE LET h == CHOOSE a \in S :
                    \A b \in S \ {a} : ~KeyLess(SpiralKey(b, c2), SpiralKey(a, c2))
         IN  <<h>> \o ArgSort(S \ {h}, c2)

Range(q) == {q[k] : k \in 1..Len(q)}

Max(S) == CHOOSE x \in S : \A y \in S : y <= x

\* Cube._spiral: the spaxels of xy0 (the representatives of a binned cube,
\* spec_indices otherwise) by radius and angle around spiral_center, which
\* defaults to (x.max() / 2, y.max() / 2).
spiral(xy0, spiral_center) ==
    LET c2 == IF spiral_center = None
              THEN <<Max({h[2] : h \in Range(xy0)}), Max({h[1] : h \in Range(xy0)})>>
              ELSE <<2 * spiral_center[1], 2 * spiral_center[2]>>
    IN  ArgSort(Range(xy0), c2)

----------------------------------------------------------------------------
\* datacube.py: the spectra of a cube.

\* A spaxel holds one of these kinds of spectrum.  A kind fixes the flag and
\* signal arrays of the spaxel, its wavelength-integrated flux, and what the
\* minimizer hands back when it is run on it (termination code, solution
\* <<base + 1, base + 2, ...>>, reduced chi-square).
Kinds == {"good", "bright", "hard", "flagged", "negative"}

\* A spaxel of a file can also be empty: every pixel of it is zero.
FileKinds == Kinds \cup {"empty"}

KindTable ==
    [k \in FileKinds |->
        [flags |-> [i \in 1..NPix |-> k = "flagged"],
         signal |-> [i \in 1..NPix |->
                        IF k = "negative" THEN -1
                        ELSE IF k = "empty" THEN 0
                        ELSE IF k = "bright" /\ i % 2 = 0 THEN 5 ELSE 3],
         flux |-> IF k = "bright" THEN 30
                  ELSE IF k = "negative" THEN 5
                  ELSE IF k = "empty" THEN 0 ELSE 20,
         status |-> IF k = "hard" THEN 1 ELSE 0,
         base |-> IF k = "bright" THEN 1 ELSE 0,
         red_chi2 |-> IF k = "hard" THEN FromInt(2) ELSE FromInt(1)]]

\* Length of the array the minimizer works on: x0 is flattened, so a (1, m)
\* guess counts m.
Is2D(p) == Len(p) = 1

FlatLen(p) == IF Is2D(p) THEN Len(p[1]) ELSE Len(p)

Minimize(kind, p) ==
    [status |-> KindTable[kind].status,
     x |-> [i \in 1..FlatLen(p) |-> FromInt(KindTable[kind].base + i)]]

----------------------------------------------------------------------------
\* datacube.py: Cube.linefit.

\* The tagged forms of individual_spec and spiral_center.
Nothing == [kind |-> "none", at |-> <<0, 0>>]

Policy(name) == [kind |-> name, at |-> <<0, 0>>]

Pair(x, y) == [kind |-> "pair", at |-> <<x, y>>]

\* cubetools.peak_spaxel, as (x, y): a spaxel of maximum integrated flux.
PeakSpaxels(sh, d) ==
    {<<c[2], c[1]>> : c \in {a \in Coords(sh) :
        \A b \in Coords(sh) : KindTable[d[b]].flux <= KindTable[d[a]].flux}}

\* int(np.round(num / den, 0)) for den > 0: halves go to the even neighbour.
RoundHalfEven(num, den) ==
    LET q == num \div den
        rem == num - q * den
    IN  IF 2 * rem < den THEN q
        ELSE IF 2 * rem > den THEN q + 1
        ELSE IF q % 2 = 0 THEN q ELSE q + 1

RECURSIVE WeightedSum(_, _, _)
WeightedSum(S, d, axis) ==
    IF S = {} THEN 0
    ELSE LET c == CHOOSE a \in S : TRUE
         IN  KindTable[d[c]].flux * (IF axis = 0 THEN 1 ELSE c[axis])
                + WeightedSum(S \ {c}, d, axis)

\* [int(np.round(i, 0)) for i in center_of_mass(image)]: <<row, column>>.
CenterOfMass(sh, d) ==
    LET total == WeightedSum(Coords(sh), d, 0)
    IN  <<RoundHalfEven(WeightedSum(Coords(sh), d, 1), total),
          RoundHalfEven(WeightedSum(Coords(sh), d, 2), total)>>

\* The same with the pair (x, y) taken as <<row, column>>.
SingleSequencesUnreversed(sh, d, individual_spec) ==
    IF individual_spec.kind = "peak"
    THEN {<< <<c[2], c[1]>> >> : c \in PeakSpaxels(sh, d)}
    ELSE IF individual_spec.kind = "cofm"
    THEN {<< CenterOfMass(sh, d) >>}
    ELSE {<< individual_spec.at >>}

\* The coordinate sequences Single mode can produce: [individual_spec[::-1]],
\* [peak_spaxel(...)[::-1]] or [center of mass].
SingleSequences(sh, d, individual_spec) ==
    IF individual_spec.kind = "peak"
    THEN {<< <<c[2], c[1]>> >> : c \in PeakSpaxels(sh, d)}
    ELSE IF individual_spec.kind = "cofm"
    THEN {<< CenterOfMass(sh, d) >>}
    ELSE {<< <<individual_spec.at[2], individual_spec.at[1]>> >>}

\* The centres Spiral mode can use, as (x0, y0) or None.
SpiralCenters(sh, d, spiral_center) ==
    IF spiral_center.kind = "peak" THEN PeakSpaxels(sh, d)
    ELSE IF spiral_center.kind = "cofm" THEN {CenterOfMass(sh, d)}
    ELSE IF spiral_center.kind = "pair" THEN {spiral_center.at}
    ELSE {None}

RAdd(a, b) ==
    IF IsNaN(a) \/ IsNaN(b) THEN NaN
    ELSE Rat(a[1] * b[2] + b[1] * a[2], a[2] * b[2])

RECURSIVE RSum(_, _, _)
RSum(S, f, i) ==
    IF S = {} THEN FromInt(0)
    ELSE LET c == CHOOSE a \in S : TRUE IN RAdd(f[c][i], RSum(S \ {c}, f, i))

\* np.average(nearsol.transpose(), 0) over the spaxels in S.
Average(S, f, npars) ==
    [i \in 1..npars |-> RDiv(RSum(S, f, i), FromInt(Cardinality(S)))]

\* The spaxels of the image within the radius, whatever their status.
NearAny(sh, h, radius, status) ==
    {c \in Coords(sh) :
        ((c[1] - h[1]) * (c[1] - h[1]) + (c[2] - h[2]) * (c[2] - h[2]))
            * radius[2] * radius[2] < radius[1] * radius[1]}

\* (radsol < refit_radius) & (self.fit_status == 0), over the whole image;
\* the radius is a rational.
NearConverged(sh, h, radius, status) ==
    {c \in Coords(sh) :
        /\ ((c[1] - h[1]) * (c[1] - h[1]) + (c[2] - h[2]) * (c[2] - h[2]))
              * radius[2] * radius[2] < radius[1] * radius[1]
        /\ status[c] = 0}

\* cubetools.bound_updater: the bounds [p (1 - bound_range), p (1 + bound_range)]
\* of every parameter, an endpoint that is None in b left None.
bound_updater(p, bound_range, b) ==
    IF b = None THEN None
    ELSE [i \in 1..Len(p) |->
            << IF b[i][1] = None THEN None
               ELSE RMul(p[i], RAdd(FromInt(1), RMul(FromInt(-1), bound_range))),
               IF b[i][2] = None THEN None
               ELSE RMul(p[i], RAdd(FromInt(1), bound_range)) >>]

\* The refit step: the guess passed at spaxel h, whether the local name p0
\* was rebound to a fresh array, and whether the guess is the average (the
\* branch that updates the bounds).
Refit(sh, h, radius, status, solution, npars, current) ==
    LET near == NearConverged(sh, h, radius, status)
    IN  IF npars = 5 /\ Cardinality(near) = 1
        \* np.shape(nearsol) == (5, 1): the transpose, a (1, 5) array
        THEN [p0 |-> << SubSeq(solution[CHOOSE c \in near : TRUE], 1, npars) >>,
              rebound |-> TRUE, averaged |-> FALSE]
        ELSE IF \E c \in near : \E i \in 1..npars : solution[c][i] # FromInt(0)
        THEN [p0 |-> Average(near, solution, npars), rebound |-> TRUE,
              averaged |-> TRUE]
        ELSE [p0 |-> current, rebound |-> FALSE, averaged |-> FALSE]

\* The fit written to the fitted spaxel alone.
TargetsUnreplicated(h, isbinned, tab) == {h}

\* The spaxels a fit at h is written to: h, or every member of h's bin.
Targets(h, isbinned, tab) ==
    IF isbinned
    THEN LET bin_num == {tab[k].binNum : k \in
                            {m \in 1..Len(tab) : <<tab[m].ycoords, tab[m].xcoords>> = h}}
         IN  {<<tab[k].ycoords, tab[k].xcoords>> : k \in
                 {m \in 1..Len(tab) : tab[m].binNum \in bin_num}}
    ELSE {h}

\* The outcomes of lines 873-912: the coordinate sequence, or the exception
\* raised while it is computed or while xy[0] is read.
Traversals(sh, d, idx, isbinned, tab, a) ==
    LET xy0 == IF isbinned THEN Representatives(tab) ELSE idx
        seqs == IF a.individual_spec.kind # "none"
                THEN {[raised |-> "none", xy |-> q] :
                        q \in SingleSequences(sh, d, a.individual_spec)}
                ELSE IF a.spiral_loop
                THEN {IF c = None /\ xy0 = <<>>
                      \* x.max() of an empty array
                      THEN [raised |-> "ValueError", xy |-> <<>>]
                      ELSE [raised |-> "none", xy |-> spiral(xy0, c)] :
                        c \in SpiralCenters(sh, d, a.spiral_center)}
                ELSE {[raised |-> "none", xy |-> xy0]}
    IN  {IF o.raised = "none" /\ o.xy = <<>>
         \* self.fit_y0, self.fit_x0 = xy[0]
         THEN [raised |-> "IndexError", xy |-> <<>>]
         ELSE o : o \in seqs}

\* self.fit_status = np.ones(...) * -1 (line 837).
NotAttempted(sh) == [c \in Coords(sh) |-> -1]

\* The first spaxel the loop of lines 970-982 writes to, or h.
FirstTarget(h, isbinned, tab) ==
    IF isbinned
    THEN LET rows == {k \in 1..Len(tab) :
                        <<tab[k].ycoords, tab[k].xcoords>> \in Targets(h, isbinned, tab)}
             k0 == CHOOSE k \in rows : \A m \in rows : k <= m
         IN  <<tab[k0].ycoords, tab[k0].xcoords>>
    ELSE h

\* len(spec.component_names): one name per component of the guess.
Components(p, fn) == Len(p) \div npars_pc(fn)

\* A cell of eqw_model that no call has written.
NotWritten == -1

\* The call in progress, told from the others by the number of calls that
\* are still to follow it.
ThisCall(rest) == Len(rest)

\* np.zeros((len(spec.component_names),) + self.fit_status.shape)
NewEqw(ncomp, sh) == [rows |-> ncomp, cells |-> [c \in Coords(sh) |-> NotWritten]]

\* self.eqw_model[:, i, j] = spec.eqw_model: a vector of one value per
\* component fits a column of as many rows, a vector of one value any column.
EqwFits(eqw, ncomp) == eqw.rows = ncomp \/ ncomp = 1

\* The flag cleared by the first fit, whatever its status.
StillFirstUntilFit(first, status) == FALSE

\* is_first_spec after a fit that stored status (lines 961-962).
StillFirst(first, status) == first /\ status # <<0>>

\* A keyword argument that is not given, and one given as an array of rank
\* dimensions (a scalar has rank 0, its value is by).
NoKeyword == [rank |-> -1, by |-> FromInt(1)]

Keyword(rank, by) == [rank |-> rank, by |-> by]

\* _arg2cube (lines 202-213) on the array cube of the Cube object, changed in
\* place: a scalar multiplies it, a 1-D argument replaces the spectrum of
\* every spaxel of spec_indices, a 2-D argument every plane, an argument of
\* another rank matches no branch.
arg2cube(arg, cube, idx, sh) ==
    IF arg.rank = 0 THEN [cube EXCEPT !.factor = RMul(@, arg.by)]
    ELSE IF arg.rank = 1 THEN [cube EXCEPT !.replaced = @ \cup Range(idx)]
    ELSE IF arg.rank = 2 THEN [cube EXCEPT !.replaced = Coords(sh)]
    ELSE cube

\* Lines 842-861: vcube = self.variance, wcube = self.weights and
\* flag_cube = self.flags are the arrays of the object, each handed to
\* _arg2cube when its keyword is given.
SetCubes(acc, a, idx, sh) ==
    [acc EXCEPT
        !.variance = IF a.variance = NoKeyword THEN @
                     ELSE arg2cube(a.variance, @, idx, sh),
        !.weights = IF a.weights = NoKeyword THEN @
                    ELSE arg2cube(a.weights, @, idx, sh),
        !.flags = IF a.flags = NoKeyword THEN @
                  ELSE arg2cube(a.flags, @, idx, sh)]

\* Cube.linefit up to the loop (lines 821-924).
CubeLinefitStart ==
    /\ pc = "idle"
    /\ shape # <<0, 0>>
    /\ \E o \in Traversals(shape, data, spec_indices, binned, voronoi_tab, args) :
          /\ xy' = o.xy
          /\ raised' = o.raised
          /\ pc' = IF o.raised = "none" THEN "loop" ELSE "raised"
          /\ fit_ref' = IF o.raised = "none" THEN o.xy[1] ELSE fit_ref
    /\ fit_status' = NotAttempted(shape)
    /\ sol' = [c \in Coords(shape) |-> [i \in 1..(Len(p0) + 1) |-> FromInt(0)]]
    /\ pos' = 1
    /\ guess' = p0
    /\ aliased' = TRUE
    /\ is_first_spec' = TRUE
    /\ visited' = <<>>
    /\ guesses' = <<>>
    /\ kwbounds' = bounds
    /\ boundsused' = <<>>
    /\ lookups' = <<>>
    /\ accessory' = IF accessory = Unset THEN Unset
                    ELSE << SetCubes(accessory[1], args, spec_indices, shape) >>
    /\ UNCHANGED <<fitvars, cubevars, args, em_model, loadarg, fit_file, op,
                   postvars, callvars>>

\* One pass of the loop (lines 925-995) at the spaxel xy[pos].  At a spaxel
\* of a binned cube that the table does not hold, bin_num is an empty array
\* and vor[:, 2] == bin_num compares arrays of different lengths: numpy
\* raises ValueError (strict) or yields False, and then nothing is stored.
CubeFitSpectrum ==
    /\ pc = "loop"
    /\ pos <= Len(xy)
    /\ \E strict \in (IF binned /\ Targets(xy[pos], binned, voronoi_tab) = {}
                      THEN BOOLEAN ELSE {FALSE}) :
       \E re \in {IF args.refit /\ ~is_first_spec
                   THEN Refit(shape, xy[pos], args.refit_radius, fit_status, sol,
                              Len(args.p0), guess)
                   ELSE [p0 |-> guess, rebound |-> FALSE, averaged |-> FALSE]} :
       \* kwargs['bounds'] = cubetools.bound_updater(...) (lines 952-954)
       \E kwb \in {IF re.averaged /\ args.update_bounds
                    THEN bound_updater(re.p0, args.bound_range, bounds)
                    ELSE kwbounds} :
       \E out \in {linefit(FreshSpectrum(KindTable[data[xy[pos]]].flags,
                                         KindTable[data[xy[pos]]].signal),
                           re.p0, kwb, function,
                           Minimize(data[xy[pos]], re.p0),
                           KindTable[data[xy[pos]]].red_chi2)} :
       LET h == xy[pos]
           alias == aliased /\ ~re.rebound
           targets == Targets(h, binned, voronoi_tab)
           ncomp == Components(args.p0, function)
           \* self.eqw_model after lines 964-967
           eqw == IF eqw_model = Unset THEN NewEqw(ncomp, shape)
                  ELSE eqw_model[1]
           \* spec.fit_status is read only while is_first_spec holds (line 961),
           \* spec.em_model when the result is stored (lines 971, 984).
           error == IF out.raised # "none" THEN out.raised
                    ELSE IF is_first_spec /\ out.self.fit_status = Unset
                    THEN "AttributeError"
                    ELSE IF binned /\ targets = {}
                    THEN (IF strict THEN "ValueError" ELSE "none")
                    ELSE IF out.self.em_model = Unset THEN "AttributeError"
                    ELSE IF out.self.fit_status = Unset THEN "AttributeError"
                    ELSE IF ~EqwFits(eqw, ncomp) THEN "ValueError"
                    ELSE "none"
           \* The spaxels written before the exception, or all of them.
           stored == IF error = "none" THEN targets
                     ELSE IF error = "ValueError" /\ targets # {}
                     THEN {FirstTarget(h, binned, voronoi_tab)}
                     ELSE {}
       IN  /\ visited' = Append(visited, h)
           /\ guesses' = Append(guesses, re.p0)
           /\ kwbounds' = kwb
           /\ boundsused' = Append(boundsused, kwb)
           /\ lookups' = Append(lookups, args.refit /\ ~is_first_spec)
           /\ guess' = out.p0
           /\ aliased' = alias
           /\ p0' = IF alias THEN out.p0 ELSE p0
           /\ spec' = out.self
           /\ raised' = error
           /\ sol' = [c \in Coords(shape) |->
                        IF c \in stored THEN out.self.em_model[1] ELSE sol[c]]
           /\ fit_status' = [c \in Coords(shape) |->
                        IF c \in stored THEN out.self.fit_status[1]
                        ELSE fit_status[c]]
           /\ eqw_model' =
                 IF out.raised # "none"
                    \/ (is_first_spec /\ out.self.fit_status = Unset)
                 THEN eqw_model
                 ELSE << [eqw EXCEPT !.cells = [c \in Coords(shape) |->
                            IF error = "none" /\ c \in targets THEN ThisCall(later)
                            ELSE @[c]]] >>
           /\ IF error # "none"
              THEN /\ pc' = "raised"
                   /\ UNCHANGED <<is_first_spec, pos>>
              ELSE /\ pc' = "loop"
                   /\ is_first_spec' = StillFirst(is_first_spec, out.self.fit_status)
                   /\ pos' = pos + 1
    /\ UNCHANGED <<bounds, function, call, fpc, cubevars, args, xy, em_model,
                   fit_ref, iovars, postvars, later>>

\* spec.fit_func as Spectrum.linefit sets it (onedspec.py lines 169-176).
ProfileOf(fn) == IF fn = "gaussian" THEN "gauss" ELSE "gausshermite"

\* After the loop (lines 997-1017): self.fit_func = spec.fit_func and
\* self.em_model = sol.
CubeLinefitFinish ==
    /\ pc = "loop"
    /\ pos > Len(xy)
    /\ em_model' = <<sol>>
    /\ fit_func' = << ProfileOf(function) >>
    /\ pc' = "done"
    /\ UNCHANGED <<fitvars, cubevars, args, raised, xy, pos, fit_status, sol,
                   fit_ref, guess, aliased, is_first_spec, visited, guesses,
                   kwbounds, boundsused, lookups, iovars, w80out, contout,
                   callvars>>

Next == CubeLinefitStart \/ CubeFitSpectrum \/ CubeLinefitFinish

----------------------------------------------------------------------------
\* The cubes and the calls of Cube.linefit that are checked.

Shape == <<NRows, NCols>>

AllGood == [c \in Coords(Shape) |-> "good"]

\* Every spaxel holds the same spectrum, or one spaxel holds one of kinds.
OneOdd(kinds) ==
    {AllGood} \cup {[AllGood EXCEPT ![c] = k] : c \in Coords(Shape), k \in kinds}

\* No spaxel, one spaxel or every spaxel masked.
Masks == {{}, Coords(Shape)} \cup {{c} : c \in Coords(Shape)}

\* Voronoi tables: a row for every spaxel in raveled order, binned by row or
\* by column, the columns numbered from the right.
Table(byrow) ==
    [k \in 1..(NRows * NCols) |->
        LET c == Raveled(Shape, k)
        IN  [ycoords |-> c[1], xcoords |-> c[2],
             binNum |-> IF byrow THEN c[1] ELSE NCols - 1 - c[2]]]

\* A table whose first image row is one bin and whose other spaxels are a
\* bin each.
TableUneven ==
    [k \in 1..(NRows * NCols) |->
        LET c == Raveled(Shape, k)
        IN  [ycoords |-> c[1], xcoords |-> c[2],
             binNum |-> IF c[1] = 0 THEN 0 ELSE (c[1] - 1) * NCols + c[2] + 1]]

\* A table that holds the spaxels a mask leaves unmasked, a bin each.
TableValid(mask) ==
    LET idx == set_spec_indices(Shape, mask)
    IN  [k \in 1..Len(idx) |->
            [ycoords |-> idx[k][1], xcoords |-> idx[k][2], binNum |-> k - 1]]

NoTable == <<>>

\* bound_range=0.1
DefaultBoundRange == Rat(1, 10)

\* A call with sig_threshold, par_threshold, update_bounds and bound_range at
\* their defaults and without the variance, weights and flags keywords.
Mode(ispec, sloop, scenter, re, radius, p) ==
    [individual_spec |-> ispec, spiral_loop |-> sloop, spiral_center |-> scenter,
     refit |-> re, refit_radius |-> radius, p0 |-> p,
     sig_threshold |-> FromInt(0), par_threshold |-> 0,
     update_bounds |-> FALSE, bound_range |-> DefaultBoundRange,
     variance |-> NoKeyword, weights |-> NoKeyword, flags |-> NoKeyword]

\* The centres and single spaxels asked for, as (x, y).
Centers == {Nothing, Policy("peak"), Policy("cofm"), Pair(0, 0), Pair(NCols - 1, 1)}

Singles == {Policy("peak"), Policy("cofm"), Pair(NCols - 1, 0)}

CubeBounds(npars) == [i \in 1..npars |-> <<None, FromInt(20 + i)>>]

\* refit_radius=3.0
DefaultRefitRadius == 3

\* Radii that reach no other spaxel, the adjacent ones only, every one.
RefitRadii == {FromInt(1), Rat(6, 5), FromInt(DefaultRefitRadius)}

\* sig_threshold values: the default and one above the faint amplitudes.
SigThresholds == {FromInt(0), FromInt(5)}

InitCube(masks, datas, tables, fns, comps, nonebounds, modes) ==
    /\ shape = Shape
    /\ spatial_mask \in masks
    /\ spec_indices = set_spec_indices(shape, spatial_mask)
    /\ data \in datas
    /\ voronoi_tab \in tables
    /\ binned = (voronoi_tab # NoTable)
    /\ function \in fns
    /\ \E ncomp \in comps : p0 = Guess(function, ncomp, MaxAmp)
    /\ bounds \in (IF nonebounds THEN {None} ELSE {}) \cup {CubeBounds(Len(p0))}
    /\ \E m \in modes : args = [m EXCEPT !.p0 = p0]
    /\ spec = FreshSpectrum(<<>>, <<>>)
    /\ call = NoCall /\ fpc = "ready"
    /\ pc = "idle" /\ raised = "none" /\ xy = <<>> /\ pos = 0
    /\ fit_status = <<>> /\ sol = <<>> /\ em_model = Unset /\ fit_ref = None
    /\ guess = None /\ aliased = TRUE /\ is_first_spec = TRUE
    /\ visited = <<>> /\ guesses = <<>>
    /\ kwbounds = None /\ boundsused = <<>> /\ lookups = <<>>
    /\ accessory = Unset /\ loadarg = None /\ fit_file = None /\ op = NoOp
    /\ NoPost

\* Calls that differ in the traversal: mode All, mode Spiral around every
\* centre, mode Single with spiral_loop and refit on and off.
TraversalModes ==
    {Mode(Nothing, FALSE, Nothing, FALSE, FromInt(DefaultRefitRadius), None)}
    \cup {Mode(Nothing, TRUE, c, FALSE, FromInt(DefaultRefitRadius), None) :
            c \in Centers}
    \cup {Mode(s, sl, Nothing, re, FromInt(DefaultRefitRadius), None) :
            s \in Singles, sl \in BOOLEAN, re \in BOOLEAN}

\* Calls with refit on: modes All and Spiral, every radius.
RefitModes ==
    {Mode(Nothing, sl, Nothing, TRUE, radius, None) :
        sl \in BOOLEAN, radius \in RefitRadii}

\* Calls that differ in the fits: modes All and Spiral, refit off, or on
\* with every radius.
FitModes ==
    {Mode(Nothing, sl, Nothing, FALSE, FromInt(DefaultRefitRadius), None) :
        sl \in BOOLEAN}
    \cup RefitModes

\* Calls that differ in sig_threshold: mode All, refit off.
PruneModes ==
    {[Mode(Nothing, FALSE, Nothing, FALSE, FromInt(DefaultRefitRadius), None)
        EXCEPT !.sig_threshold = s] : s \in SigThresholds}

InitTraversal ==
    InitCube(Masks, OneOdd({"bright"}), {NoTable, Table(TRUE), Table(FALSE)},
             {"gaussian"}, {1}, FALSE, TraversalModes)

InitFits ==
    InitCube({{}}, OneOdd(Kinds \ {"good"}), {NoTable, TableUneven},
             {"gaussian", "gauss_hermite"}, {1}, TRUE, FitModes)

\* Refits of profiles of several components.
InitRefit ==
    InitCube({{}}, OneOdd({"bright", "hard"}), {NoTable, TableUneven},
             {"gaussian", "gauss_hermite"}, {MaxComp}, FALSE, RefitModes)

InitPrune ==
    InitCube({{}}, OneOdd({"bright"}), {NoTable}, {"gaussian"}, {1}, FALSE,
             PruneModes)

\* A binned cube whose table leaves out the masked spaxel: mode All, and
\* mode Single at the masked spaxel and at another one.
UncoveredModes ==
    {Mode(s, FALSE, Nothing, FALSE, FromInt(DefaultRefitRadius), None) :
        s \in {Nothing, Pair(0, 0), Pair(NCols - 1, 0)}}

InitUncovered ==
    InitCube({{<<0, 0>>}}, {AllGood}, {TableValid({<<0, 0>>})}, {"gaussian"},
             {1}, FALSE, UncoveredModes)

Init == InitTraversal \/ InitFits \/ InitRefit \/ InitPrune \/ InitUncovered

Spec == Init /\ [][Next]_vars

\* Calls with refit on and update_bounds on or off: modes All and Spiral,
\* every radius.
BoundsModes ==
    {[m EXCEPT !.update_bounds = u] : m \in RefitModes, u \in BOOLEAN}

InitBounds ==
    InitCube({{}}, OneOdd({"bright", "hard"}), {NoTable, TableUneven},
             {"gaussian", "gauss_hermite"}, {1}, FALSE, BoundsModes)

SpecBounds == InitBounds /\ [][Next]_vars

----------------------------------------------------------------------------
\* datacube.py: _load, spatial_rebin, _write_linefit and loadfit.

\* The shape of the flux array of a cube of spatial shape sh.
DataShape(sh) == <<NPix, sh[1], sh[2]>>

\* The arguments variance, flags, stellar, weights and spatial_mask of _load:
\* not given, the name of an extension the file holds with data of a shape,
\* a name the file does not hold, or an array of a shape (for a spatial mask
\* of the spatial shape, with the masked spaxels).
NoArg == [kind |-> "none", shape |-> <<>>, masked |-> {}]

Ext(s) == [kind |-> "ext", shape |-> s, masked |-> {}]

MissingExt == [kind |-> "missing", shape |-> <<>>, masked |-> {}]

Arr(s, m) == [kind |-> "array", shape |-> s, masked |-> m]

Labels == <<"variance", "flags", "stellar", "weights", "spatial_mask">>

\* numpy's i[:] = j on shapes: leading axes of length 1 beyond the rank of i
\* are dropped, the rest is aligned to the right, every axis equal or 1.
RECURSIVE Squeezed(_, _)
Squeezed(s, rank) ==
    IF Len(s) > rank /\ Head(s) = 1 THEN Squeezed(Tail(s), rank) ELSE s

Broadcastable(s, target) ==
    LET q == Squeezed(s, Len(target))
    IN  /\ Len(q) <= Len(target)
        /\ \A k \in 1..Len(q) :
              q[k] = 1 \/ q[k] = target[Len(target) - Len(q) + k]

\* One pass of the loop of _accessory_data (lines 87-95) for the argument j
\* and the array of shape target: the array is set, keeps its default, or
\* the pass raises.
AccessoryOutcome(j, target, dshape) ==
    IF j.kind = "ext"
    THEN IF j.shape # dshape THEN "AssertionError"
         ELSE IF Broadcastable(j.shape, target) THEN "set" ELSE "ValueError"
    ELSE IF j.kind = "array"
    THEN IF Broadcastable(j.shape, target) THEN "set" ELSE "ValueError"
    ELSE "default"

\* _accessory_data for a file of spatial shape sh: the exception of the
\* first pass that raises, the arrays as they are left, the masked spaxels.
accessory_data(a, sh) ==
    LET dshape == DataShape(sh)
        target(k) == IF k = 5 THEN sh ELSE dshape
        out(k) == AccessoryOutcome(a[Labels[k]], target(k), dshape)
        failing == {k \in 1..5 : out(k) \in {"AssertionError", "ValueError"}}
        stop == IF failing = {} THEN 6
                ELSE CHOOSE k \in failing : \A m \in failing : k <= m
        arr(k) == [shape |-> target(k),
                   fill |-> IF k < stop /\ out(k) = "set" THEN "given"
                            ELSE IF k \in {1, 4} THEN "ones" ELSE "zeros",
                   factor |-> FromInt(1), replaced |-> {}]
    IN  [raised |-> IF failing = {} THEN "none" ELSE out(stop),
         arrays |-> [variance |-> arr(1), flags |-> arr(2),
                     stellar |-> arr(3), weights |-> arr(4)],
         masked |-> IF 5 < stop /\ out(5) = "set"
                    THEN a.spatial_mask.masked ELSE {}]

\* cubetools.rebin: the spatial shape after rebinning.
RebinShape(sh, xbin, ybin) == <<sh[1] \div ybin, sh[2] \div xbin>>

\* self.spatial_mask.astype(int) and .astype('bool').
MaskImage(sh, m) == [c \in Coords(sh) |-> IF c \in m THEN 1 ELSE 0]

AsBool(img) == {c \in DOMAIN img : img[c] # 0}

\* table.Table(self.spec_indices, names=('row', 'column')) and
\* np.array([i for i in t]).
IndexTable(idx) == [k \in 1..Len(idx) |-> [row |-> idx[k][1], column |-> idx[k][2]]]

FromIndexTable(tab) == [k \in 1..Len(tab) |-> <<tab[k].row, tab[k].column>>]

\* The file _write_linefit writes: it holds no FITCONFIG extension.
write_linefit(solution, status, mask, idx, fn, ref, eqw) ==
    [fitconfig |-> FALSE,
     solution |-> solution,
     status |-> status,
     mask2d |-> << MaskImage(shape, mask) >>,
     specidx |-> << IndexTable(idx) >>,
     function |-> fn,
     fit_ref |-> ref,
     eqw_m |-> << eqw >>]

\* loadfit on the file f: the exception raised and the attributes as they
\* are left.  The mask and the coordinate list are taken from the file, each
\* if the file holds it.
loadfit(f, mask, idx, func) ==
    IF ~f.fitconfig
    THEN [raised |-> "RuntimeError", stored |-> FALSE, mask |-> mask, idx |-> idx,
          fit_func |-> func]
    ELSE [raised |-> IF npars_pc(f.function) \in {3, 5} THEN "none" ELSE "IOError",
          stored |-> TRUE,
          fit_func |-> IF f.function = "gaussian" THEN << "gaussvel" >>
                       ELSE IF f.function = "gauss_hermite"
                       THEN << "gausshermitevel" >>
                       ELSE func,
          mask |-> IF f.mask2d = None THEN mask ELSE AsBool(f.mask2d[1]),
          idx |-> IF f.specidx = None THEN idx ELSE FromIndexTable(f.specidx[1])]

\* The shapes an accessory can come with: the shape of the flux array, the
\* spatial shape, the spatial shape as a cube of one plane, one column too
\* many.
AccessoryShapes ==
    {DataShape(Shape), Shape, <<1, NRows, NCols>>, <<NPix, NRows, NCols + 1>>}

AccessoryForms ==
    {NoArg, MissingExt}
    \cup {Ext(s) : s \in AccessoryShapes}
    \cup {Arr(s, {}) : s \in AccessoryShapes}

\* The forms of the spatial mask: arrays of the spatial shape are given with
\* their masked spaxels.
MaskForms ==
    {NoArg, MissingExt, Ext(Shape), Ext(DataShape(Shape)),
     Arr(Shape, {}), Arr(Shape, {<<0, 0>>}), Arr(<<NRows, NCols + 1>>, {})}

NoAccessories ==
    [variance |-> NoArg, flags |-> NoArg, stellar |-> NoArg, weights |-> NoArg,
     spatial_mask |-> NoArg]

\* The files: every spaxel good, or the last one empty.
FileData == {AllGood, [AllGood EXCEPT ![<<NRows - 1, NCols - 1>>] = "empty"]}

\* The calls of _load: a variance and a spatial mask of every form, one of
\* flags, stellar and weights of every form, nan_spaxels and the VORBIN
\* keyword of the header varied.
LoadArgs ==
    {[shape |-> Shape, data |-> d, nan_spaxels |-> "all", vorbin |-> FALSE,
      acc |-> [NoAccessories EXCEPT !.variance = v, !.spatial_mask = m]] :
        d \in FileData, v \in AccessoryForms, m \in MaskForms}
    \cup {[shape |-> Shape, data |-> AllGood, nan_spaxels |-> "all",
           vorbin |-> FALSE, acc |-> [NoAccessories EXCEPT ![l] = v]] :
            l \in {"flags", "stellar", "weights"}, v \in AccessoryForms}
    \cup {[shape |-> Shape, data |-> d, nan_spaxels |-> n, vorbin |-> b,
           acc |-> NoAccessories] :
            d \in FileData, n \in {"all", "any", "none"}, b \in BOOLEAN}

\* Fit files that hold a FITCONFIG extension, with and without the MASK2D
\* and SPECIDX extensions, of a known and of an unknown function.
OtherFiles(sh) ==
    {[fitconfig |-> TRUE,
      solution |-> [c \in Coords(sh) |-> [i \in 1..4 |-> FromInt(i)]],
      status |-> [c \in Coords(sh) |-> 0],
      mask2d |-> IF hasmask THEN << MaskImage(sh, m) >> ELSE None,
      specidx |-> IF hasidx THEN << IndexTable(set_spec_indices(sh, m)) >> ELSE None,
      function |-> fn,
      fit_ref |-> <<0, 0>>,
      eqw_m |-> None] :
        m \in {{}, {<<0, 0>>}}, hasmask \in BOOLEAN, hasidx \in BOOLEAN,
        fn \in {"gaussian", "lorentzian"}}

\* A fit file of one gaussian component whose solution holds a NaN width at
\* the first spaxel, a NaN chi-square at the last spaxel of the first row and
\* a centre of exactly 0 at the last spaxel.
DegenerateFile(sh) ==
    [fitconfig |-> TRUE,
     solution |-> [c \in Coords(sh) |->
        [i \in 1..4 |->
            IF c = <<0, 0>> /\ i = 3 THEN NaN
            ELSE IF c = <<0, sh[2] - 1>> /\ c # <<0, 0>> /\ i = 4 THEN NaN
            ELSE IF c = <<sh[1] - 1, sh[2] - 1>> /\ c # <<0, 0>> /\ i = 2
            THEN FromInt(0)
            ELSE FromInt(i)]],
     status |-> [c \in Coords(sh) |-> 0],
     mask2d |-> << MaskImage(sh, {}) >>,
     specidx |-> << IndexTable(set_spec_indices(sh, {})) >>,
     function |-> "gaussian",
     fit_ref |-> <<0, 0>>,
     eqw_m |-> None]

\* _load (lines 97-188) on a new Cube.
Load ==
    /\ shape = <<0, 0>> /\ op = NoOp /\ pc = "idle"
    /\ \E f \in LoadArgs :
          LET acc == accessory_data(f.acc, f.shape)
              nan_mask == IF f.nan_spaxels \in {"all", "any"}
                          THEN {c \in Coords(f.shape) : f.data[c] = "empty"}
                          ELSE {}
              ok == acc.raised = "none"
          IN  /\ loadarg' = f
              /\ shape' = f.shape
              /\ data' = f.data
              /\ accessory' = << acc.arrays >>
              /\ op' = [name |-> "load", raised |-> acc.raised, file |-> None]
              /\ spatial_mask' = IF ok THEN acc.masked \cup nan_mask ELSE acc.masked
              /\ binned' = (ok /\ f.vorbin)
              /\ voronoi_tab' = IF ok /\ f.vorbin THEN TableUneven ELSE NoTable
              /\ spec_indices' = IF ok
                                 THEN set_spec_indices(f.shape, acc.masked \cup nan_mask)
                                 ELSE spec_indices
    /\ UNCHANGED <<fitvars, runvars, fit_file, postvars, callvars>>

\* spatial_rebin (lines 1383-1430) of an unbinned cube: the mask is dropped
\* and the coordinate list recomputed for the new shape.
SpatialRebin ==
    /\ shape # <<0, 0>> /\ pc = "idle" /\ ~binned
    /\ op.name = "load" /\ op.raised = "none"
    /\ \E xbin \in 1..NCols, ybin \in 1..NRows :
          /\ shape' = RebinShape(shape, xbin, ybin)
          /\ data' = [c \in Coords(RebinShape(shape, xbin, ybin)) |-> "good"]
          /\ accessory' = << [accessory[1] EXCEPT
                !.flags = [shape |-> DataShape(RebinShape(shape, xbin, ybin)),
                           fill |-> "given", factor |-> FromInt(1),
                           replaced |-> {}]] >>
          /\ spatial_mask' = {}
          /\ spec_indices' = set_spec_indices(RebinShape(shape, xbin, ybin), {})
    /\ op' = [name |-> "rebin", raised |-> "none", file |-> None]
    /\ UNCHANGED <<fitvars, runvars, binned, voronoi_tab, loadarg, fit_file,
                   postvars, callvars>>

\* _write_linefit (lines 229-340) after a completed run.
WriteLinefit ==
    /\ pc = "done" /\ op.raised = "none" /\ fit_file = None
    /\ fit_file' = << write_linefit(em_model[1], fit_status, spatial_mask,
                                    spec_indices, function, fit_ref,
                                    eqw_model) >>
    /\ op' = [name |-> "write", raised |-> "none", file |-> None]
    /\ UNCHANGED <<fitvars, cubevars, runvars, accessory, loadarg, postvars,
                   callvars>>

\* loadfit (lines 1019-1109) on the file that was written or on another one.
Loadfit ==
    /\ shape # <<0, 0>> /\ pc \in {"idle", "done"}
    /\ op.raised = "none" /\ op.name # "loadfit"
    /\ \E f \in (IF fit_file = None THEN {} ELSE {fit_file[1]})
                  \cup OtherFiles(shape) \cup {DegenerateFile(shape)} :
          LET out == loadfit(f, spatial_mask, spec_indices, fit_func)
          IN  /\ op' = [name |-> "loadfit", raised |-> out.raised, file |-> << f >>]
              /\ spatial_mask' = out.mask
              /\ spec_indices' = out.idx
              /\ em_model' = IF out.stored THEN << f.solution >> ELSE em_model
              /\ fit_status' = IF out.stored THEN f.status ELSE fit_status
              /\ fit_ref' = IF out.stored THEN f.fit_ref ELSE fit_ref
              /\ fit_func' = out.fit_func
              /\ eqw_model' = IF out.stored /\ f.eqw_m # None THEN f.eqw_m[1]
                              ELSE eqw_model
    /\ UNCHANGED <<fitvars, shape, data, binned, voronoi_tab, args, pc, raised,
                   xy, pos, sol, guess, aliased, is_first_spec, visited, guesses,
                   kwbounds, boundsused, lookups, accessory, loadarg, fit_file,
                   w80out, contout, later>>

\* A script: a cube is loaded, possibly rebinned, fitted, written, read.
NextIO ==
    \/ Load
    \/ SpatialRebin
    \/ (op.raised = "none" /\ CubeLinefitStart)
    \/ CubeFitSpectrum
    \/ CubeLinefitFinish
    \/ WriteLinefit
    \/ Loadfit

\* A new Cube and the arguments of the Cube.linefit call of the script.
InitIO ==
    /\ shape = <<0, 0>> /\ data = <<>> /\ spatial_mask = {}
    /\ spec_indices = <<>> /\ binned = FALSE /\ voronoi_tab = NoTable
    /\ function = "gaussian"
    /\ p0 = Guess(function, 1, MaxAmp)
    /\ bounds = CubeBounds(Len(p0))
    /\ args = Mode(Nothing, FALSE, Nothing, FALSE, FromInt(DefaultRefitRadius), p0)
    /\ spec = FreshSpectrum(<<>>, <<>>)
    /\ call = NoCall /\ fpc = "ready"
    /\ pc = "idle" /\ raised = "none" /\ xy = <<>> /\ pos = 0
    /\ fit_status = <<>> /\ sol = <<>> /\ em_model = Unset /\ fit_ref = None
    /\ guess = None /\ aliased = TRUE /\ is_first_spec = TRUE
    /\ visited = <<>> /\ guesses = <<>>
    /\ kwbounds = None /\ boundsused = <<>> /\ lookups = <<>>
    /\ accessory = Unset /\ loadarg = None /\ fit_file = None /\ op = NoOp
    /\ NoPost

SpecIO == InitIO /\ [][NextIO]_vars

----------------------------------------------------------------------------
\* Several Cube.linefit runs on one Cube object.

\* The runs made on one object.
MaxRuns == 2

\* The caller's next call of Cube.linefit on the object, after the run
\* before it has returned: a new guess array and the arguments of the call.
NextCall ==
    /\ pc = "done"
    /\ later # <<>>
    /\ function' = Head(later).function
    /\ p0' = Head(later).args.p0
    /\ bounds' = CubeBounds(Len(Head(later).args.p0))
    /\ args' = Head(later).args
    /\ later' = Tail(later)
    /\ pc' = "idle"
    /\ UNCHANGED <<spec, call, fpc, cubevars, raised, xy, pos, fit_status, sol,
                   em_model, fit_ref, guess, aliased, is_first_spec, visited,
                   guesses, kwbounds, boundsused, lookups, iovars, postvars,
                   eqw_model>>

\* The variance, weights and flags keywords: a scalar, arrays of one, two
\* and three dimensions.
KeywordForms ==
    {Keyword(0, FromInt(2))} \cup {Keyword(rank, FromInt(1)) : rank \in 1..3}

\* Calls of mode All and of mode Single, of one component and of MaxComp;
\* calls of mode All with one of the keywords given.
RerunCalls ==
    LET plain(s, ncomp) ==
            Mode(s, FALSE, Nothing, FALSE, FromInt(DefaultRefitRadius),
                 Guess("gaussian", ncomp, MaxAmp))
    IN  {[function |-> "gaussian", args |-> plain(s, ncomp)] :
            s \in {Nothing, Pair(NCols - 1, 0)}, ncomp \in {1, MaxComp}}
        \cup {[function |-> "gaussian",
               args |-> [plain(Nothing, 1) EXCEPT ![l] = k]] :
                l \in {"variance", "weights", "flags"}, k \in KeywordForms}

\* A cube loaded without accessories, masked or not, and the calls made on it.
InitRerun ==
    /\ shape = Shape
    /\ spatial_mask \in {{}, {<<0, 0>>}}
    /\ spec_indices = set_spec_indices(shape, spatial_mask)
    /\ data = AllGood
    /\ voronoi_tab = NoTable /\ binned = FALSE
    /\ \E first \in RerunCalls :
          /\ function = first.function
          /\ p0 = first.args.p0
          /\ args = first.args
    /\ bounds = CubeBounds(Len(p0))
    /\ later \in [1..(MaxRuns - 1) -> RerunCalls]
    /\ spec = FreshSpectrum(<<>>, <<>>)
    /\ call = NoCall /\ fpc = "ready"
    /\ pc = "idle" /\ raised = "none" /\ xy = <<>> /\ pos = 0
    /\ fit_status = <<>> /\ sol = <<>> /\ em_model = Unset /\ fit_ref = None
    /\ guess = None /\ aliased = TRUE /\ is_first_spec = TRUE
    /\ visited = <<>> /\ guesses = <<>>
    /\ kwbounds = None /\ boundsused = <<>> /\ lookups = <<>>
    /\ accessory = << accessory_data(NoAccessories, shape).arrays >>
    /\ loadarg = None /\ fit_file = None /\ op = NoOp
    /\ fit_func = Unset /\ w80out = None /\ contout = None
    /\ eqw_model = Unset

NextRerun ==
    CubeLinefitStart \/ CubeFitSpectrum \/ CubeLinefitFinish \/ NextCall

SpecRerun == InitRerun /\ [][NextRerun]_vars

----------------------------------------------------------------------------
\* datacube.py: Cube.w80.

\* npars of Cube.w80 (lines 1125-1130); 0 stands for the Exception branch.
\* self.fit_func is compared with lprof.gauss and lprof.gausshermite, loadfit
\* stores lprof.gaussvel and lprof.gausshermitevel: elprofile lies outside
\* src/, so whether the names denote the same functions (same) is an input.
W80Npars(func, same) ==
    IF func = Unset THEN 0
    ELSE IF func[1] = "gauss" \/ (same /\ func[1] = "gaussvel") THEN 3
    ELSE IF func[1] = "gausshermite" \/ (same /\ func[1] = "gausshermitevel") THEN 5
    ELSE 0

\* par_indexes = np.arange(npars) + npars * component, 1-based.
ParIndexes(npars, component) == {npars * component + k : k \in 1..npars}

\* The guard with the test of the centre left out.
DegenerateNaNOnly(vec, npars, component) ==
    \E k \in ParIndexes(npars, component) : IsNaN(vec[k])

\* nandata_flag or nullcwl_flag (lines 1158-1161).
Degenerate(vec, npars, component) ==
    \/ \E k \in ParIndexes(npars, component) : IsNaN(vec[k])
    \/ vec[2 + npars * component] = FromInt(0)

\* Cube.w80 on the solution array em of a cube of shape sh: the exception
\* raised, the two arrays (an entry is "zero" as created, "nan", or "eval"
\* where spectools.w80eval gave it), the coordinates w80eval was run at and
\* the shape of the array returned.
w80(em, sh, func, same, component, individual_spec, idx) ==
    LET wxy == IF individual_spec.kind = "pair"
              THEN << <<individual_spec.at[2], individual_spec.at[1]>> >>
              ELSE idx
        npars == W80Npars(func, same)
        planes == Len(em[<<0, 0>>])
        center_index == 1 + npars * component
        failed == [raised |-> "none", model |-> None, direct |-> None,
                   evaluated |-> {}, retshape |-> None, xy |-> wxy, npars |-> npars]
        value(c) == IF c \notin Range(wxy) THEN "zero"
                    ELSE IF Degenerate(em[c], npars, component) THEN "nan"
                    ELSE "eval"
    IN  IF npars = 0 THEN [failed EXCEPT !.raised = "Exception"]
        ELSE IF center_index > planes
        THEN [failed EXCEPT !.raised = "RuntimeError"]
        \* self.em_model[center_index, i, j] at the first coordinate
        ELSE IF wxy # <<>> /\ npars * (component + 1) > planes
        THEN [failed EXCEPT !.raised = "IndexError"]
        ELSE [raised |-> "none",
              model |-> [c \in Coords(sh) |-> value(c)],
              direct |-> [c \in Coords(sh) |-> value(c)],
              evaluated |-> {c \in Range(wxy) : value(c) = "eval"},
              retshape |-> <<2, sh[1], sh[2]>>,
              xy |-> wxy, npars |-> npars]

\* The components and the single coordinate (x, y) Cube.w80 is asked for.
W80Components == 0..(MaxComp + 1)

W80Singles == {Nothing, Pair(NCols - 1, 0)}

\* One Cube.w80 call on the stored solution.
W80 ==
    /\ w80out = None /\ em_model # Unset
    /\ pc \in {"idle", "done"}
    /\ \E component \in W80Components, ispec \in W80Singles, same \in BOOLEAN :
          LET out == w80(em_model[1], shape, fit_func, same, component, ispec,
                         spec_indices)
          IN  w80out' = [component |-> component, individual_spec |-> ispec,
                         out |-> out]
    /\ UNCHANGED <<fitvars, cubevars, runvars, iovars, fit_func, contout,
                   callvars>>

\* Calls before Cube.w80: mode All, and mode Single at one spaxel.
W80Modes ==
    {Mode(Nothing, FALSE, Nothing, FALSE, FromInt(DefaultRefitRadius), None),
     Mode(Pair(0, NRows - 1), FALSE, Nothing, FALSE,
          FromInt(DefaultRefitRadius), None)}

InitW80 ==
    InitCube({{}, {<<0, 0>>}}, {AllGood}, {NoTable, TableUneven},
             {"gaussian", "gauss_hermite"}, {1, MaxComp}, FALSE, W80Modes)

\* A script: a run or a fit file read, then Cube.w80.
NextW80 ==
    \/ (op = NoOp /\ CubeLinefitStart)
    \/ CubeFitSpectrum
    \/ CubeLinefitFinish
    \/ (w80out = None /\ Loadfit)
    \/ W80

SpecW80 == InitW80 /\ [][NextW80]_vars

----------------------------------------------------------------------------
\* datacube.py: Cube.continuum.

\* s[:20] and s[-20:]
EdgeSamples == 20

\* Pixels of a spectrum of a cube Cube.continuum is run on: the two edges
\* and one pixel between them.
ContPix == 2 * EdgeSamples + 1

\* What an edge of such a spectrum holds: zeros, NaNs, zeros and NaNs in
\* turn, zeros and one value, NaNs and one value.
EdgeClasses == {"zeros", "nans", "mixed", "data", "datanan"}

EdgeKinds == {[head |-> a, tail |-> b] : a, b \in EdgeClasses}

\* The k-th sample (1-based) of an edge of class e.
EdgeSample(e, k) ==
    IF e = "zeros" THEN FromInt(0)
    ELSE IF e = "nans" THEN NaN
    ELSE IF e = "mixed" THEN (IF k % 2 = 1 THEN FromInt(0) ELSE NaN)
    ELSE IF e = "data" THEN (IF k = 2 THEN FromInt(1) ELSE FromInt(0))
    ELSE (IF k = 2 THEN FromInt(1) ELSE NaN)

\* The spectrum of a spaxel of kind e: the pixel between the edges holds 1.
Samples(e) ==
    [k \in 1..ContPix |->
        IF k <= EdgeSamples THEN EdgeSample(e.head, k)
        ELSE IF k = EdgeSamples + 1 THEN FromInt(1)
        ELSE EdgeSample(e.tail, k - EdgeSamples - 1)]

\* data[fwidx]: the pixels with fw[0] < rest_wavelength < fw[1], the
\* wavelength of a pixel being its number.
Windowed(samples, fw) ==
    LET RECURSIVE pick(_)
        pick(k) == IF k > Len(samples) THEN <<>>
                   ELSE (IF fw[1] < k /\ k < fw[2] THEN <<samples[k]>> ELSE <<>>)
                            \o pick(k + 1)
    IN  pick(1)

\* any(a) of Python on floats: an element is true unless it is 0; NaN is true.
PyAny(a) == \E k \in 1..Len(a) : a[k] # FromInt(0)

\* any(np.isnan(a))
AnyNaN(a) == \E k \in 1..Len(a) : IsNaN(a[k])

\* s[:20] and s[-20:] of a sequence of any length.
FirstSamples(a) == SubSeq(a, 1, IF Len(a) < EdgeSamples THEN Len(a) ELSE EdgeSamples)

LastSamples(a) ==
    SubSeq(a, IF Len(a) < EdgeSamples THEN 1 ELSE Len(a) - EdgeSamples + 1, Len(a))

\* The guard of lines 456-457.
ContinuumGuard(a) ==
    \/ PyAny(FirstSamples(a)) /\ PyAny(LastSamples(a))
    \/ AnyNaN(FirstSamples(a)) /\ AnyNaN(LastSamples(a))

\* xy of a binned cube in Cube.continuum: <<xcoords, ycoords>> of the first
\* row of every bin.
RepresentativesXY(tab) ==
    LET idx == UniqueIndex(tab, BinIds(tab))
    IN  [k \in 1..Len(idx) |-> <<tab[idx[k]].xcoords, tab[idx[k]].ycoords>>]

\* Cube.continuum (lines 418-473) on a cube of shape sh with the spectra d:
\* est names the coordinate at which spectools.continuum raises and what it
\* raises (TypeError or ValueError), if any.  The result names the exception
\* that ended the call, the spaxels the estimator was invoked at, and the
\* continuum stored: "zero" as created, "nan", or "cont" from the estimator.
continuum(sh, d, idx, isbinned, tab, fw, est) ==
    LET cxy == IF isbinned THEN RepresentativesXY(tab) ELSE idx
        guard(h) == ContinuumGuard(Windowed(Samples(d[h]), fw))
        \* What the pass at position k does.
        pass(k) ==
            LET h == cxy[k]
            IN  IF h \notin Coords(sh) THEN "IndexError"
                ELSE IF ~guard(h) THEN "skipped"
                ELSE IF est.at = h THEN "failed"
                \* v[v[:, 2] == k, :2] on the one-dimensional table
                ELSE IF isbinned THEN "IndexError"
                ELSE "cont"
        raising == {k \in 1..Len(cxy) : pass(k) = "IndexError"}
        stop == IF raising = {} THEN Len(cxy) + 1
                ELSE CHOOSE k \in raising : \A m \in raising : k <= m
        done == {k \in 1..Len(cxy) : k < stop}
    IN  IF fw = None
        \* fw[0] with the default fitting_window=None
        THEN [raised |-> "TypeError", invoked |-> {}, cont |-> None, xy |-> cxy]
        ELSE [raised |-> IF raising = {} THEN "none" ELSE "IndexError",
              invoked |-> {cxy[k] : k \in {m \in 1..Len(cxy) :
                              /\ m <= stop /\ cxy[m] \in Coords(sh)
                              /\ guard(cxy[m])}},
              cont |-> IF raising # {} THEN None
                       ELSE [c \in Coords(sh) |->
                               IF \E k \in done : cxy[k] = c
                               THEN (IF pass(CHOOSE k \in done : cxy[k] = c) = "cont"
                                     THEN "cont" ELSE "nan")
                               ELSE "zero"],
              xy |-> cxy]

\* The fitting windows: none, all pixels, all but the first.
ContWindows == {None, <<0, ContPix + 1>>, <<1, ContPix + 1>>}

\* Where spectools.continuum raises: nowhere, or at one spaxel.
NoEstimatorError == [at |-> None, err |-> "none"]

EstimatorErrors(sh) ==
    {NoEstimatorError}
    \cup {[at |-> c, err |-> e] : c \in Coords(sh), e \in {"TypeError", "ValueError"}}

\* One Cube.continuum call.
Continuum ==
    /\ contout = None
    /\ \E fw \in ContWindows, est \in EstimatorErrors(shape) :
          contout' = [fitting_window |-> fw, est |-> est,
                      out |-> continuum(shape, data, spec_indices, binned,
                                        voronoi_tab, fw, est)]
    /\ UNCHANGED <<fitvars, cubevars, runvars, iovars, fit_func, w80out,
                   callvars>>

\* Cubes whose spaxels hold values at both edges, but for one.
ContData ==
    LET plain == [c \in Coords(Shape) |-> [head |-> "data", tail |-> "data"]]
    IN  {[plain EXCEPT ![c] = e] : c \in Coords(Shape), e \in EdgeKinds}

InitCont ==
    /\ shape = Shape
    /\ data \in ContData
    /\ spatial_mask \in {{}, {<<0, 0>>}}
    /\ spec_indices = set_spec_indices(shape, spatial_mask)
    /\ voronoi_tab \in {NoTable, TableUneven}
    /\ binned = (voronoi_tab # NoTable)
    /\ function = "gaussian"
    /\ p0 = Guess(function, 1, MaxAmp)
    /\ bounds = CubeBounds(Len(p0))
    /\ args = Mode(Nothing, FALSE, Nothing, FALSE, FromInt(DefaultRefitRadius), p0)
    /\ spec = FreshSpectrum(<<>>, <<>>)
    /\ call = NoCall /\ fpc = "ready"
    /\ pc = "idle" /\ raised = "none" /\ xy = <<>> /\ pos = 0
    /\ fit_status = <<>> /\ sol = <<>> /\ em_model = Unset /\ fit_ref = None
    /\ guess = None /\ aliased = TRUE /\ is_first_spec = TRUE
    /\ visited = <<>> /\ guesses = <<>>
    /\ kwbounds = None /\ boundsused = <<>> /\ lookups = <<>>
    /\ accessory = Unset /\ loadarg = None /\ fit_file = None /\ op = NoOp
    /\ NoPost

NextCont == Continuum

SpecCont == InitCont /\ [][NextCont]_vars

----------------------------------------------------------------------------
\* Claims about one Spectrum.linefit call (specification SpecFit).

Called == fpc # "ready"

KnownFunction == npars_pc(function) # 0

ScaleFactorOf(sp) == mean(sp.signal, valid_pixels(sp.flags))

\* C2: a call on a spectrum with more than 80% of its pixels flagged ends
\* with stored fit status 98 and a stored solution of npars + 1 NaNs, and the
\* minimizer is not invoked.
C2_FlaggedStoresStatusAndNaNSolution ==
    (Called /\ KnownFunction /\ TooManyFlags(spec.flags))
        => /\ fpc = "returned"
           /\ spec.fit_status = <<98>>
           /\ spec.em_model = <<nan_solution(Len(call.p0))>>
           /\ ~call.minimized

\* C3: a call on a spectrum whose scale_factor is <= 0 ends with stored fit
\* status 97 and a stored solution of npars + 1 NaNs, and the minimizer is not
\* invoked.
C3_NonPositiveScaleStoresStatusAndNaNSolution ==
    (Called /\ KnownFunction /\ ~TooManyFlags(spec.flags)
            /\ RLeqZero(ScaleFactorOf(spec)))
        => /\ fpc = "returned"
           /\ spec.fit_status = <<97>>
           /\ spec.em_model = <<nan_solution(Len(call.p0))>>
           /\ ~call.minimized

\* C4: a call on a spectrum with scale_factor > 0 and at most 80% flagged
\* pixels returns, for every bounds argument including None, a solution of
\* length len(p0) + 1 and records the minimizer's termination code (>= 0, not
\* 97 or 98) as the status.
C4_FitReturnsSolutionAndOptimizerStatus ==
    (Called /\ KnownFunction /\ ~TooManyFlags(spec.flags)
            /\ ~RLeqZero(ScaleFactorOf(spec)))
        => /\ fpc = "returned"
           /\ call.ret # None
           /\ Len(call.ret) = Len(call.p0) + 1
           /\ spec.fit_status # Unset
           /\ spec.fit_status[1] >= 0
           /\ spec.fit_status[1] \notin {97, 98}

\* C6: after a call, whatever its outcome, the caller's p0 and bounds hold
\* the values they held before it.
C6_ArgumentsUnchanged ==
    fpc = "returned" => (p0 = call.p0 /\ bounds = call.bounds)

\* C7: in the returned solution exactly the amplitude entries (the first of
\* every block below npars) are the minimizer's values times scale_factor,
\* every other parameter is the minimizer's value, and the trailing element
\* is the reduced chi-square as computed, not multiplied by scale_factor.
C7_OnlyAmplitudesRescaled ==
    (Called /\ call.minimized)
        => LET npars == Len(call.p0)
               npc == npars_pc(function)
           IN  /\ \A i \in 1..npars :
                     call.ret[i] = IF (i - 1) % npc = 0
                                   THEN RMul(call.r.x[i], call.scale_factor)
                                   ELSE call.r.x[i]
               /\ call.ret[npars + 1] = call.red_chi2

----------------------------------------------------------------------------
\* Claims about one Cube.linefit run (specification Spec).

\* The spectrum of spaxel c triggers a local failure, and its status code.
LocalFailure(c) ==
    \/ TooManyFlags(KindTable[data[c]].flags)
    \/ RLeqZero(ScaleFactorOf(KindTable[data[c]]))

FailureCode(c) == IF TooManyFlags(KindTable[data[c]].flags) THEN 98 ELSE 97

\* C1: a spaxel whose spectrum fails locally (more than 80% flagged pixels,
\* or scale_factor <= 0) never aborts the run: the run does not end with an
\* exception at such a spaxel, and once it is done the status array holds the
\* failure code there and the solution entries there are NaN.  Stated for
\* the runs that are given bounds.
C1_FailureIsolated ==
    /\ (pc = "raised" /\ visited # <<>> /\ bounds # None)
          => ~LocalFailure(visited[Len(visited)])
    /\ pc = "done" =>
          \A k \in 1..Len(visited) :
              LocalFailure(visited[k]) =>
                  /\ fit_status[visited[k]] = FailureCode(visited[k])
                  /\ \A i \in 1..Len(sol[visited[k]]) : IsNaN(sol[visited[k]][i])

\* C5: with refit disabled the fitter gets the user's initial guess at every
\* spaxel, and spaxels that hold the same spectrum get the same solution.
C5_IndependentWithoutRefit ==
    (pc # "idle" /\ ~args.refit) =>
        /\ \A k \in 1..Len(guesses) : guesses[k] = args.p0
        /\ \A a, b \in 1..(pos - 1) :
              data[xy[a]] = data[xy[b]] => sol[xy[a]] = sol[xy[b]]

ModeAll == args.individual_spec.kind = "none" /\ ~args.spiral_loop

ModeSpiral == args.individual_spec.kind = "none" /\ args.spiral_loop

ModeSingle == args.individual_spec.kind # "none"

NoRepeats(q) == \A a, b \in 1..Len(q) : a # b => q[a] # q[b]

\* The fitter was invoked at a prefix of xy, all of it once the run is done.
VisitsFollow ==
    /\ Len(visited) <= Len(xy)
    /\ \A k \in 1..Len(visited) : visited[k] = xy[k]
    /\ pc = "done" => Len(visited) = Len(xy)

\* The bin id the table gives spaxel c.
BinOf(c) ==
    voronoi_tab[CHOOSE k \in 1..Len(voronoi_tab) :
        <<voronoi_tab[k].ycoords, voronoi_tab[k].xcoords>> = c].binNum

\* C8: in mode All the visited sequence is, for an unbinned cube, the
\* unmasked spaxels in row-major order, each once; for a binned cube one
\* spaxel of every bin id, in ascending order of the bin ids.
C8_AllModeOrder ==
    (pc # "idle" /\ ModeAll) =>
        /\ VisitsFollow
        /\ NoRepeats(xy)
        /\ ~binned =>
              /\ Range(xy) = Coords(shape) \ spatial_mask
              /\ \A a, b \in 1..Len(xy) :
                    a < b => \/ xy[a][1] < xy[b][1]
                             \/ xy[a][1] = xy[b][1] /\ xy[a][2] < xy[b][2]
        /\ binned =>
              /\ {BinOf(xy[k]) : k \in 1..Len(xy)} = BinIds(voronoi_tab)
              /\ \A a, b \in 1..Len(xy) : a < b => BinOf(xy[a]) < BinOf(xy[b])

C8_Witness ==
    /\ pc = "done" /\ ModeAll /\ ~binned
    /\ spatial_mask # {}
    /\ Len(visited) >= 2 /\ visited = xy

\* The spaxels a run is to fit: the unmasked ones, or in a binned cube the
\* spaxel of the first table row of every bin.
ToBeFitted ==
    IF binned
    THEN {<<voronoi_tab[k].ycoords, voronoi_tab[k].xcoords>> : k \in
            {m \in 1..Len(voronoi_tab) :
                \A j \in 1..(m - 1) : voronoi_tab[j].binNum # voronoi_tab[m].binNum}}
    ELSE Coords(shape) \ spatial_mask

\* The polar angle of (dx, dy) in [0, 2 pi) by octant: 0 the positive column
\* axis, 1 the first quadrant, 2 the positive row axis, ... 7 the fourth.
Octant(dx, dy) ==
    IF dy = 0 THEN (IF dx >= 0 THEN 0 ELSE 4)
    ELSE IF dx = 0 THEN (IF dy > 0 THEN 2 ELSE 6)
    ELSE IF dy > 0 THEN (IF dx > 0 THEN 1 ELSE 3)
    ELSE (IF dx < 0 THEN 5 ELSE 7)

\* Within a quadrant the angle grows with the slope dy / dx.
PolarLess(ax, ay, bx, by) ==
    \/ Octant(ax, ay) < Octant(bx, by)
    \/ /\ Octant(ax, ay) = Octant(bx, by)
       /\ Octant(ax, ay) \in {1, 5}
       /\ ay * bx < by * ax
    \/ /\ Octant(ax, ay) = Octant(bx, by)
       /\ Octant(ax, ay) \in {3, 7}
       /\ ay * (-bx) > by * (-ax)

\* C9: in mode Spiral (centre given as a pair, or defaulting to half the
\* largest column and row index) the visited sequence is a permutation of
\* the spaxels to be fitted, in ascending distance from the centre, spaxels
\* at the same distance in ascending polar angle in [0, 2 pi).
C9_SpiralOrder ==
    (pc # "idle" /\ ModeSpiral /\ raised \notin {"ValueError", "IndexError"}
        /\ args.spiral_center.kind \in {"none", "pair"}) =>
        LET cx2 == IF args.spiral_center.kind = "pair"
                   THEN 2 * args.spiral_center.at[1]
                   ELSE Max({h[2] : h \in ToBeFitted})
            cy2 == IF args.spiral_center.kind = "pair"
                   THEN 2 * args.spiral_center.at[2]
                   ELSE Max({h[1] : h \in ToBeFitted})
            dx(h) == 2 * h[2] - cx2
            dy(h) == 2 * h[1] - cy2
            d2(h) == dx(h) * dx(h) + dy(h) * dy(h)
        IN  /\ VisitsFollow
            /\ NoRepeats(xy)
            /\ Range(xy) = ToBeFitted
            /\ \A a, b \in 1..Len(xy) :
                  a < b =>
                     \/ d2(xy[a]) < d2(xy[b])
                     \/ /\ d2(xy[a]) = d2(xy[b])
                        /\ PolarLess(dx(xy[a]), dy(xy[a]), dx(xy[b]), dy(xy[b]))

C9_Witness ==
    /\ pc = "done" /\ ModeSpiral /\ ~binned
    /\ args.spiral_center.kind = "none"
    /\ spatial_mask # {}
    /\ Len(visited) >= 3 /\ visited = xy /\ xy # spec_indices

\* C10: in mode Single the fitter is invoked once, at row y and column x of
\* the pair (x, y), at a spaxel of maximum integrated flux for 'peak', at the
\* rounded centre of mass for 'cofm', whatever spiral_loop and refit are; in
\* an unbinned cube every other spaxel keeps status -1.
C10_SingleMode ==
    (pc # "idle" /\ ModeSingle) =>
        /\ Len(xy) = 1
        /\ VisitsFollow
        /\ pc \in {"done", "raised"} => Len(visited) = 1
        /\ args.individual_spec.kind = "pair" =>
              xy[1] = <<args.individual_spec.at[2], args.individual_spec.at[1]>>
        /\ args.individual_spec.kind = "peak" =>
              /\ xy[1] \in Coords(shape)
              /\ \A c \in Coords(shape) :
                    KindTable[data[c]].flux <= KindTable[data[xy[1]]].flux
        /\ args.individual_spec.kind = "cofm" => xy[1] = CenterOfMass(shape, data)
        /\ ~binned => \A c \in Coords(shape) \ {xy[1]} : fit_status[c] = -1

C10_Witness ==
    /\ pc = "done" /\ ~binned
    /\ args.individual_spec.kind = "pair"
    /\ args.spiral_loop /\ args.refit
    /\ visited = << <<0, NCols - 1>> >>
    /\ fit_status[<<0, NCols - 1>>] = 0

\* Two spaxels the table puts in the same bin.
SameBin(c, d) ==
    \E a, b \in 1..Len(voronoi_tab) :
        /\ <<voronoi_tab[a].ycoords, voronoi_tab[a].xcoords>> = c
        /\ <<voronoi_tab[b].ycoords, voronoi_tab[b].xcoords>> = d
        /\ voronoi_tab[a].binNum = voronoi_tab[b].binNum

Within(c, h) ==
    ((c[1] - h[1]) * (c[1] - h[1]) + (c[2] - h[2]) * (c[2] - h[2]))
        * args.refit_radius[2] * args.refit_radius[2]
      < args.refit_radius[1] * args.refit_radius[1]

\* The spaxels that hold a result stored by the fits before position n.
StoredBefore(n) ==
    UNION {Targets(visited[k], binned, voronoi_tab) : k \in 1..(n - 1)}

\* Those of them within the radius of the spaxel at position n that
\* converged.
StoredMatches(n) ==
    {c \in StoredBefore(n) : Within(c, visited[n]) /\ fit_status[c] = 0}

\* A guess as a flat vector.
Flat(p) == IF Is2D(p) THEN p[1] ELSE p

\* C12: the fitter is invoked at the coordinates of the traversal sequence
\* in its order, once per element, and with refit on a guess computed by the
\* refit step at position n is the mean of results stored by fits at
\* positions below n, never of a spaxel without a stored result.
C12_OrderAndCausality ==
    (pc # "idle") =>
        /\ VisitsFollow
        /\ Len(guesses) = Len(visited)
        /\ args.refit =>
              \A n \in 1..Len(visited) :
                  StoredMatches(n) # {} =>
                      Flat(guesses[n])
                          = Average(StoredMatches(n), sol, Len(args.p0))

C12_Witness ==
    /\ pc = "done" /\ args.refit /\ ~binned
    /\ Len(visited) = NRows * NCols
    /\ args.refit_radius = FromInt(DefaultRefitRadius)
    /\ fit_status[visited[1]] = 0 /\ fit_status[visited[2]] = 0
    /\ data[visited[1]] # data[visited[2]]
    /\ guesses[3] # guesses[2]

\* The coordinates visited before position n that lie within the radius of
\* the one at position n and converged.
VisitedMatches(n) ==
    {c \in {visited[k] : k \in 1..(n - 1)} :
        Within(c, visited[n]) /\ fit_status[c] = 0}

\* C13: with refit on, when exactly one coordinate visited before lies
\* within the radius with status 0, the guess passed to the fitter is that
\* coordinate's solution without the trailing reduced chi-square, as a flat
\* vector of the length of the user's p0, whatever the profile kind and the
\* number of components.
C13_OneMatchReusedVerbatim ==
    (pc # "idle" /\ args.refit) =>
        \A n \in 1..Len(visited) :
            Cardinality(VisitedMatches(n)) = 1 =>
                LET c == CHOOSE m \in VisitedMatches(n) : TRUE
                IN  /\ Len(guesses[n]) = Len(args.p0)
                    /\ guesses[n] = SubSeq(sol[c], 1, Len(args.p0))

\* C14: with refit on, when two or more coordinates visited before lie
\* within the radius with status 0, the guess is the coordinate-wise mean of
\* the solutions (reduced chi-square left out) of exactly those coordinates,
\* each counted once; a spaxel that was not visited does not enter it.
C14_SeveralMatchesAveraged ==
    (pc # "idle" /\ args.refit) =>
        \A n \in 1..Len(visited) :
            Cardinality(VisitedMatches(n)) >= 2 =>
                guesses[n] = Average(VisitedMatches(n), sol, Len(args.p0))

\* C15: with refit on, when no coordinate visited before lies within the
\* radius with status 0, the guess passed to the fitter is the one that was
\* passed at the coordinate visited just before.
C15_NoMatchKeepsGuess ==
    (pc # "idle" /\ args.refit) =>
        \A n \in 2..Len(visited) :
            VisitedMatches(n) = {} => guesses[n] = guesses[n - 1]

\* C16: when the coordinate sequence of a run is empty, the run ends with
\* the RuntimeError 'No spectra to fit.' before the fitter is invoked.
C16_EmptyTraversalError ==
    (pc # "idle" /\ ~ModeSingle /\ ToBeFitted = {}) =>
        /\ pc = "raised" /\ raised = "RuntimeError"
        /\ visited = <<>>

\* a < b for rationals.
RLess(a, b) == a[1] * b[2] < b[1] * a[2]

\* The local noise estimate: one flux unit at every spaxel.
LocalNoise(c) == FromInt(1)

\* C17: once a run with sig_threshold > 0 is done, every fitted spaxel whose
\* parameter number par_threshold is below sig_threshold times the local
\* noise holds an all-NaN solution; with sig_threshold = 0 no solution is
\* overwritten.
C17_WeakFitsPruned ==
    pc = "done" =>
        \A k \in 1..Len(visited) :
            LET c == visited[k]
                weak == RLess(sol[c][args.par_threshold + 1],
                              RMul(args.sig_threshold, LocalNoise(c)))
            IN  /\ (RLess(FromInt(0), args.sig_threshold) /\ weak) =>
                      \A i \in 1..Len(em_model[1][c]) : IsNaN(em_model[1][c][i])
                /\ args.sig_threshold = FromInt(0) =>
                      \A i \in 1..Len(em_model[1][c]) : ~IsNaN(em_model[1][c][i])

\* A fit before position n stored status 0.
ConvergedBefore(n) == \E k \in 1..(n - 1) : fit_status[visited[k]] = 0

\* C26: with refit on, the refit lookup is not made at any coordinate up to
\* and including the first one whose fit has status 0, and is made at every
\* coordinate after it, whatever the status of the fits in between.
C26_LookupsStartAfterFirstSuccess ==
    (pc # "idle" /\ args.refit) =>
        /\ Len(lookups) = Len(visited)
        /\ \A n \in 1..Len(visited) : lookups[n] <=> ConvergedBefore(n)

C26_Witness ==
    /\ pc = "done" /\ args.refit /\ ~binned
    /\ Len(visited) = NRows * NCols
    /\ fit_status[visited[1]] = 1 /\ fit_status[visited[2]] = 0
    /\ lookups[1] = FALSE /\ lookups[2] = FALSE /\ lookups[3] = TRUE
    /\ guesses[3] # guesses[2]

\* A fit was attempted for spaxel c: it was visited, or it is a member of the
\* bin of a visited spaxel.
Attempted(c) ==
    \E k \in 1..Len(visited) :
        c = visited[k] \/ (binned /\ SameBin(c, visited[k]))

\* C29: after a completed run the status is -1 at exactly the spaxels no fit
\* was attempted for, and differs from -1 at every visited spaxel and every
\* member of a visited bin.
C29_StatusMarksAttempts ==
    pc = "done" =>
        \A c \in Coords(shape) : (fit_status[c] = -1) <=> ~Attempted(c)

\* The centres a Spiral run may have chosen, as <<row, column>>.
ChosenCentres ==
    IF args.spiral_center.kind = "cofm" THEN {CenterOfMass(shape, data)}
    ELSE IF args.spiral_center.kind = "peak"
    THEN {<<c[2], c[1]>> : c \in PeakSpaxels(shape, data)}
    ELSE {<<args.spiral_center.at[2], args.spiral_center.at[1]>>}

Dist2(c, d) == (c[1] - d[1]) * (c[1] - d[1]) + (c[2] - d[2]) * (c[2] - d[2])

\* C27: in mode Spiral with a centre given by the 'cofm' policy, by the
\* 'peak' policy or as (x0, y0), rows are compared with the row of the centre
\* and columns with its column: the first coordinate visited is an eligible
\* coordinate nearest to the centre.
C27_SpiralStartsAtCentre ==
    (pc # "idle" /\ args.individual_spec.kind = "none" /\ args.spiral_loop
        /\ args.spiral_center.kind # "none" /\ xy # <<>>) =>
        \E centre \in ChosenCentres :
            \A c \in Range(xy) : Dist2(xy[1], centre) <= Dist2(c, centre)

----------------------------------------------------------------------------
\* Claims about loading, rebinning, writing and reading (specification
\* SpecIO).

\* C18: after _load, spatial_rebin and loadfit, in any order, spec_indices
\* is the sequence of the spaxels the spatial mask leaves unmasked, in
\* row-major order.
C18_SpecIndicesFollowMask ==
    (shape # <<0, 0>> /\ op.name # "none" /\ op.raised = "none") =>
        spec_indices = set_spec_indices(shape, spatial_mask)

\* The shape an accessory is to have.
ExpectedShape(label) ==
    IF label = "spatial_mask" THEN loadarg.shape ELSE DataShape(loadarg.shape)

Supplied(label) == loadarg.acc[label].kind \in {"ext", "array"}

\* C19: _load fails when a supplied variance, flags, stellar or weights
\* array (or spatial mask) has not the shape it is to have, given by
\* extension name or as an array; when every supplied accessory has it, the
\* load succeeds, an omitted variance is all ones, omitted flags are all
\* false and an omitted spatial mask masks no spaxel but the empty ones.
C19_LoadChecksShapes ==
    op.name = "load" =>
        LET labels == {Labels[k] : k \in 1..Len(Labels)}
            wrong == \E l \in labels :
                        Supplied(l) /\ loadarg.acc[l].shape # ExpectedShape(l)
            empty == IF loadarg.nan_spaxels = "none" THEN {}
                     ELSE {c \in Coords(shape) : data[c] = "empty"}
        IN  /\ wrong => op.raised # "none"
            /\ ~wrong =>
                  /\ op.raised = "none"
                  /\ ~Supplied("variance") => accessory[1].variance.fill = "ones"
                  /\ ~Supplied("flags") => accessory[1].flags.fill = "zeros"
                  /\ ~Supplied("spatial_mask") => spatial_mask = empty

\* C20: reading the file _write_linefit wrote for a completed run back with
\* loadfit succeeds and leaves the solution, the status, the spatial mask,
\* the coordinate list and the reference spaxel as they were written.
C20_WriteLoadfitRoundTrip ==
    (op.name = "loadfit" /\ fit_file # None /\ op.file = fit_file) =>
        /\ op.raised = "none"
        /\ em_model = << fit_file[1].solution >>
        /\ fit_status = fit_file[1].status
        /\ spatial_mask = AsBool(fit_file[1].mask2d[1])
        /\ spec_indices = FromIndexTable(fit_file[1].specidx[1])
        /\ fit_ref = fit_file[1].fit_ref

----------------------------------------------------------------------------
\* Claims about Cube.w80 (specification SpecW80).

W80Returned == w80out # None /\ w80out.out.raised = "none"

\* The block of the component asked for in the solution stored at spaxel c.
W80Block(c) ==
    LET n == w80out.out.npars
    IN  SubSeq(em_model[1][c], n * w80out.component + 1,
               n * w80out.component + n)

BlockHasNaN(c) == \E k \in 1..Len(W80Block(c)) : W80Block(c)[k][2] = 0

CentreIsZero(c) == W80Block(c)[2] = <<0, 1>>

\* C21: at every processed coordinate where a parameter of the component's
\* block is NaN or its centre is exactly 0, both W80 values are NaN and the
\* width evaluation is not run; at every other processed coordinate both
\* values come from the width evaluation.
C21_W80DegenerateGuard ==
    W80Returned =>
        \A c \in Range(w80out.out.xy) :
            IF BlockHasNaN(c) \/ CentreIsZero(c)
            THEN /\ w80out.out.model[c] = "nan"
                 /\ w80out.out.direct[c] = "nan"
                 /\ c \notin w80out.out.evaluated
            ELSE /\ w80out.out.model[c] = "eval"
                 /\ w80out.out.direct[c] = "eval"
                 /\ c \in w80out.out.evaluated

C21_Witness ==
    /\ W80Returned
    /\ \E c, d, e \in Range(w80out.out.xy) :
          /\ BlockHasNaN(c) /\ w80out.out.model[c] = "nan"
          /\ ~BlockHasNaN(d) /\ CentreIsZero(d) /\ w80out.out.direct[d] = "nan"
          /\ e \in w80out.out.evaluated

\* Components of the stored solution: (planes - 1) / block size.
W80Fitted == (Len(em_model[1][<<0, 0>>]) - 1) \div w80out.out.npars

\* C22: a call with component >= the number of fitted components, the number
\* itself included, raises the component-number RuntimeError before any
\* coordinate is processed; a call with a smaller component does not.
C22_ComponentNumberError ==
    (w80out # None /\ w80out.out.npars # 0) =>
        IF w80out.component >= W80Fitted
        THEN w80out.out.raised = "RuntimeError"
        ELSE w80out.out.raised # "RuntimeError"

\* C23: a call for all eligible coordinates returns two arrays of the
\* spatial shape, a call for a single coordinate returns two scalars.
C23_W80ReturnShape ==
    W80Returned =>
        w80out.out.retshape =
            IF w80out.individual_spec.kind = "pair" THEN <<2>>
            ELSE <<2, shape[1], shape[2]>>

----------------------------------------------------------------------------
\* Claims about Cube.continuum (specification SpecCont).

\* Every sample of a is zero or NaN (a: a sequence of samples).
OnlyZerosAndNaNs(a) == \A k \in 1..Len(a) : a[k] = <<0, 1>> \/ a[k][2] = 0

\* The first and the last 20 samples of the windowed spectrum of spaxel c.
EdgeOf(c, last) ==
    LET a == Windowed(Samples(data[c]), contout.fitting_window)
        n == IF Len(a) < 20 THEN Len(a) ELSE 20
    IN  IF last THEN SubSeq(a, Len(a) - n + 1, Len(a)) ELSE SubSeq(a, 1, n)

WorthEstimating(c) ==
    ~OnlyZerosAndNaNs(EdgeOf(c, FALSE)) /\ ~OnlyZerosAndNaNs(EdgeOf(c, TRUE))

\* C24: the continuum estimator is invoked at a coordinate if and only if
\* neither the first 20 nor the last 20 samples of its spectrum are all zero,
\* all NaN or zeros and NaNs only; where it is not invoked the continuum of
\* the coordinate is NaN.
C24_ContinuumGuard ==
    (contout # None /\ contout.out.raised = "none") =>
        \A c \in Range(contout.out.xy) :
            /\ (c \in contout.out.invoked) <=> WorthEstimating(c)
            /\ ~WorthEstimating(c) => contout.out.cont[c] = "nan"

----------------------------------------------------------------------------
\* Claims about the bounds of a run (specification SpecBounds).

\* The bounds recomputed for the guess p from the user's bounds: p (1 -/+
\* bound_range) where the user's endpoint is bounded.
Recomputed(p) ==
    LET r == args.bound_range
        lo(i) == Rat(p[i][1] * (r[2] - r[1]), p[i][2] * r[2])
        hi(i) == Rat(p[i][1] * (r[2] + r[1]), p[i][2] * r[2])
    IN  [i \in 1..Len(p) |->
            << IF bounds[i][1] = <<>> THEN <<>> ELSE lo(i),
               IF bounds[i][2] = <<>> THEN <<>> ELSE hi(i) >>]

\* C25: with refit and update_bounds on, whenever the guess of a visit is
\* derived from converged fits nearby (one or several), the bounds passed to
\* the fitter are recomputed from that guess and the user's bounds, unbounded
\* endpoints left unbounded; with update_bounds off they are always the
\* user's bounds.
C25_BoundsFollowGuess ==
    (pc # "idle") =>
        \A n \in 1..Len(visited) :
            /\ ~args.update_bounds => boundsused[n] = bounds
            /\ (args.refit /\ args.update_bounds /\ VisitedMatches(n) # {}) =>
                  boundsused[n] = Recomputed(Flat(guesses[n]))

----------------------------------------------------------------------------
\* Claims about several runs on one Cube object (specification SpecRerun).

\* The values the arrays acc hold: an array of zeros multiplied by a scalar
\* holds zeros.
Held(acc) ==
    [l \in DOMAIN acc |->
        IF acc[l].fill = "zeros" /\ acc[l].replaced = {}
        THEN [acc[l] EXCEPT !.factor = FromInt(1)]
        ELSE acc[l]]

\* C28: no step of a Cube.linefit run, with or without the variance, weights
\* and flags keywords, changes the data, the spatial mask or the values of
\* the variance, flags, stellar and weights arrays of the object.
C28_RunsKeepInputs ==
    [][(CubeLinefitStart \/ CubeFitSpectrum \/ CubeLinefitFinish) =>
          /\ data' = data
          /\ spatial_mask' = spatial_mask
          /\ accessory # Unset => Held(accessory'[1]) = Held(accessory[1])]_vars

\* C30: after a completed run every result array is of this run alone: the
\* equivalent-width arrays have one row per component of the run's guess and
\* hold zeros or values written by this call, the solution has one plane per
\* parameter and one more, and the status differs from -1 only at spaxels
\* this run has written.
C30_ResultsOfThisRun ==
    pc = "done" =>
        /\ eqw_model # Unset =>
              /\ eqw_model[1].rows = Components(args.p0, function)
              /\ \A c \in Coords(shape) :
                    eqw_model[1].cells[c] \in {NotWritten, ThisCall(later)}
        /\ \A c \in Coords(shape) :
              /\ Len(sol[c]) = Len(args.p0) + 1
              /\ fit_status[c] # -1 =>
                    \E n \in 1..Len(visited) :
                        c \in Targets(visited[n], binned, voronoi_tab)

====
